---- MODULE Spec2Model ----
(***************************************************************************)
(* Model of the data-processing project (proyecto_progra): the operation   *)
(* journal (persistencia/registro_operaciones.py), the data model          *)
(* (modelos/registro.py, modelos/dataset.py), the cleaner and transformer  *)
(* (procesadores/) and the menu application (main.py).                     *)
(***************************************************************************)
EXTENDS Integers, Sequences, FiniteSets, TLC

VARIABLES
    store,        \* the persistent store operaciones.dat
    jstate,       \* "sin_construir" | "abierto" | "fallo" (constructor raised)
    operaciones,  \* RegistroOperaciones.operaciones, the in-memory list
    clock,        \* seconds shown by datetime.now()
    ultima,       \* the last journal call: its name, argument and outcome
    cargadas,     \* history: the entries the running instance loaded
    registradas,  \* history: one entry per registrar_operacion call since
                  \*          (kept while limpiar_historial was never called)
    limpiado,     \* history: limpiar_historial was called on the instance
    huboFallo,    \* history: some store rewrite of the instance failed
    heap,         \* the Registro objects: heap[id] is the _datos dict of id
    dsets,        \* the Dataset objects: dsets[k] = [nombre, registros]
    dultima,      \* the last call on a dataset: name, arguments, outcome
    llamadas,     \* number of calls made on the Datasets so far
    app,          \* AplicacionProcesadorDatos: dataset, dataset_original,
                  \* limpiador and transformador as Dataset references
    astate,       \* "sin_iniciar" | "ejecutando" | "terminada"
    realizadas,   \* history: the operations the menu carried out on the
                  \*          dataset since the journal was last emptied
    pasos         \* number of menu actions so far

jvars == <<store, jstate, operaciones, clock, ultima, cargadas, registradas,
           limpiado, huboFallo>>

dvars == <<heap, dsets, dultima, llamadas>>

avars == <<app, astate, realizadas, pasos>>

vars == <<jvars, dvars, avars>>

(***************************************************************************)
(* Bounds                                                                  *)
(***************************************************************************)
MaxOps == 2      \* longest in-memory journal explored
MaxClock == 1    \* last second datetime.now() shows
MaxN == 3        \* largest argument given to obtener_ultimas_n_operaciones
MaxRegs == 2     \* most records in the Dataset a behaviour starts from
MaxLlamadas == 2      \* most calls on the Datasets in a behaviour
MaxAcciones == 3      \* most menu actions in a behaviour
MaxFilas == 3         \* most rows of the Dataset a Limpiador or Transformador is given
MaxLlamadasT == 1     \* most calls on a Transformador in a behaviour
MaxCambios == 1       \* most changes a caller makes to lists the journal returned
MaxVentas == 6        \* most rows of the Dataset an analyzer is given

(***************************************************************************)
(* Python values                                                           *)
(***************************************************************************)
None == "<None>"

NombresDataset == {"sales", "stock"}
TiposOperacion == {"Cargar Dataset", "Ordenar por Campo"}
DictVacio == {}
\* the parametros argument: None or a dict (a set of key/value pairs)
ResultadoPorDefecto == "Exitoso"
SinParametros == [esNone |-> TRUE, items |-> DictVacio]
\* the argument lists registrar_operacion is called with
ArgsRegistrar ==
    { <<"sales", "Cargar Dataset", SinParametros, ResultadoPorDefecto>>,
      <<"stock", "Ordenar por Campo",
        [esNone |-> FALSE, items |-> {<<"campo", "total">>}], "Error">> }

\* datetime.now().strftime("%Y-%m-%d %H:%M:%S"): second resolution text
strftime(t) == "2026-11-05 00:00:0" \o ToString(t)

(***************************************************************************)
(* Exceptions: the classes an except clause names catch their subclasses   *)
(***************************************************************************)
Bases(exc) ==
    CASE exc = "UnpicklingError"     -> {"UnpicklingError", "PickleError", "Exception"}
      [] exc = "PicklingError"       -> {"PicklingError", "PickleError", "Exception"}
      [] exc = "EOFError"            -> {"EOFError", "Exception"}
      [] exc = "FileNotFoundError"   -> {"FileNotFoundError", "OSError", "Exception"}
      [] exc = "PermissionError"     -> {"PermissionError", "OSError", "Exception"}
      [] exc = "OSError"             -> {"OSError", "Exception"}
      [] exc = "ValueError"          -> {"ValueError", "Exception"}
      [] exc = "ModuleNotFoundError" -> {"ModuleNotFoundError", "ImportError", "Exception"}
      [] OTHER                       -> {"Exception"}

Atrapa(clases, exc) == exc # None /\ (Bases(exc) \cap clases) # {}

(***************************************************************************)
(* Operacion and its pickle form                                           *)
(***************************************************************************)
\* Operacion.__init__
Operacion(dataset, operacion, parametros, resultado, ahora) ==
    [ timestamp  |-> strftime(ahora),
      dataset    |-> dataset,
      operacion  |-> operacion,
      parametros |-> IF parametros.esNone \/ parametros.items = DictVacio
                        THEN DictVacio ELSE parametros.items,
      resultado  |-> resultado ]

\* pickle.dump of the list: one object frame per entry, attributes in
\* __dict__ order
pickle_dump(ops) ==
    [ i \in 1..Len(ops) |->
        <<"Operacion", ops[i].timestamp, ops[i].dataset, ops[i].operacion,
          ops[i].parametros, ops[i].resultado>> ]

\* pickle.load of a well-formed blob
pickle_load(blob) ==
    [ i \in 1..Len(blob) |->
        [ timestamp  |-> blob[i][2],
          dataset    |-> blob[i][3],
          operacion  |-> blob[i][4],
          parametros |-> blob[i][5],
          resultado  |-> blob[i][6] ] ]

(***************************************************************************)
(* The persistent store                                                    *)
(*   kind "ausente"  : no file                                             *)
(*   kind "lista"    : a pickle of a list of Operacion                     *)
(*   kind "corrupto" : bytes on which pickle.load raises exc               *)
(*   kind "ilegible" : the path cannot be opened (no permission, or a      *)
(*                     directory); open raises exc for reading and writing *)
(***************************************************************************)
StoreAusente == [kind |-> "ausente", exc |-> None, blob |-> <<>>]
StoreLista(ops) == [kind |-> "lista", exc |-> None, blob |-> pickle_dump(ops)]
StoreCorrupto(e) == [kind |-> "corrupto", exc |-> e, blob |-> <<>>]
StoreIlegible == [kind |-> "ilegible", exc |-> "PermissionError", blob |-> <<>>]
\* what a failed pickle.dump leaves behind: open(.., 'wb') truncated the file
StoreTruncado == StoreCorrupto("EOFError")

\* exceptions pickle.load raises on bytes that are not a pickle of the list
ExcepcionesCarga == {"UnpicklingError", "EOFError", "ValueError", "ModuleNotFoundError"}

OpGuardada == Operacion("stock", "Ordenar por Campo", SinParametros, ResultadoPorDefecto, 0)

StoresIniciales ==
    {StoreAusente, StoreIlegible, StoreLista(<<>>), StoreLista(<<OpGuardada>>)}
      \cup {StoreCorrupto(e) : e \in ExcepcionesCarga}

\* RegistroOperaciones._cargar_operaciones: the list, or the exception that
\* leaves the method
ClasesAtrapadasCarga == {"PickleError", "EOFError", "FileNotFoundError"}

cargar_operaciones(st) ==
    IF st.kind = "ausente" THEN [raised |-> None, ops |-> <<>>]
    ELSE LET exc == IF st.kind = "lista" THEN None ELSE st.exc
         IN  IF exc = None THEN [raised |-> None, ops |-> pickle_load(st.blob)]
             ELSE IF Atrapa(ClasesAtrapadasCarga, exc)
                  THEN [raised |-> None, ops |-> <<>>]
                  ELSE [raised |-> exc, ops |-> <<>>]

\* RegistroOperaciones._guardar_operaciones. escritura is what the file
\* system does: "ok", "open_falla" (open raises, file untouched) or
\* "dump_falla" (the file was opened and truncated, then the write raised).
Escrituras == {"ok", "open_falla", "dump_falla"}
EscriturasPosibles(st) == IF st.kind = "ilegible" THEN {"open_falla"} ELSE Escrituras

ExcepcionEscritura(st, escritura) ==
    CASE escritura = "ok"         -> None
      [] escritura = "open_falla" -> IF st.kind = "ilegible" THEN st.exc ELSE "PermissionError"
      [] escritura = "dump_falla" -> "OSError"

ClasesAtrapadasSoloPickle == {"PickleError"}

\* the except clause of _guardar_operaciones
ClasesAtrapadasGuardar == {"Exception"}

guardar_antes_de_agregar(ops, st, escritura) ==
    LET exc == ExcepcionEscritura(st, escritura)
        nuevo == CASE escritura = "ok"         -> StoreLista(SubSeq(ops, 1, Len(ops) - 1))
                   [] escritura = "open_falla" -> st
                   [] escritura = "dump_falla" -> StoreTruncado
    IN  [ret |-> exc = None, raised |-> None, store |-> nuevo]

guardar_operaciones(ops, st, escritura) ==
    LET exc == ExcepcionEscritura(st, escritura)
        nuevo == CASE escritura = "ok"         -> StoreLista(ops)
                   [] escritura = "open_falla" -> st
                   [] escritura = "dump_falla" -> StoreTruncado
    IN  IF exc = None THEN [ret |-> TRUE, raised |-> None, store |-> nuevo]
        ELSE IF Atrapa(ClasesAtrapadasGuardar, exc)
             THEN [ret |-> FALSE, raised |-> None, store |-> nuevo]
             ELSE [ret |-> FALSE, raised |-> exc, store |-> nuevo]

Min(a, b) == IF a < b THEN a ELSE b

(***************************************************************************)
(* Queries                                                                 *)
(***************************************************************************)
\* list slicing s[desde:] with Python's index rules (0-based desde; a
\* negative desde counts from the end; -0 is 0)
PySliceDesde(s, desde) ==
    LET d0 == IF desde < 0 THEN Len(s) + desde ELSE desde
        d  == IF d0 < 0 THEN 0 ELSE IF d0 > Len(s) THEN Len(s) ELSE d0
    IN  SubSeq(s, d + 1, Len(s))

\* obtener_todas_operaciones
obtener_todas_operaciones(ops) == [i \in 1..Len(ops) |-> ops[i]]

\* obtener_operaciones_por_dataset
obtener_operaciones_por_dataset(ops, nombre_dataset) ==
    LET Cumple(op) == op.dataset = nombre_dataset IN SelectSeq(ops, Cumple)

\* obtener_operaciones_por_tipo
obtener_operaciones_por_tipo(ops, tipo_operacion) ==
    LET Cumple(op) == op.operacion = tipo_operacion IN SelectSeq(ops, Cumple)

\* obtener_ultimas_n_operaciones
obtener_ultimas_n_operaciones(ops, n) ==
    IF Len(ops) >= n THEN PySliceDesde(ops, 0 - n) ELSE ops

\* contar_operaciones
contar_operaciones(ops) == Len(ops)

\* the loop of obtener_estadisticas: tipos[op.operacion] = tipos.get(..., 0) + 1
RECURSIVE ContarTipos(_, _)
ContarTipos(ops, tipos) ==
    IF ops = <<>> THEN tipos
    ELSE LET t == Head(ops).operacion
             previo == IF t \in DOMAIN tipos THEN tipos[t] ELSE 0
         IN  ContarTipos(Tail(ops),
                 [k \in (DOMAIN tipos) \cup {t} |-> IF k = t THEN previo + 1 ELSE tipos[k]])

RECURSIVE JuntarDatasets(_, _)
JuntarDatasets(ops, datasets) ==
    IF ops = <<>> THEN datasets
    ELSE JuntarDatasets(Tail(ops), datasets \cup {Head(ops).dataset})

DictTiposVacio == [k \in {} |-> 0]

estadisticas_primera_por_ultima(ops) ==
    IF ops = <<>>
    THEN [ total_operaciones |-> 0,
           datasets_usados   |-> {},
           tipos_operaciones |-> DictTiposVacio,
           primera_operacion |-> None,
           ultima_operacion  |-> None ]
    ELSE [ total_operaciones |-> Len(ops),
           datasets_usados   |-> JuntarDatasets(ops, {}),
           tipos_operaciones |-> ContarTipos(ops, DictTiposVacio),
           primera_operacion |-> ops[1].timestamp,
           ultima_operacion  |-> ops[1].timestamp ]

\* obtener_estadisticas (datasets_usados is list(set(..)): kept as the set)
obtener_estadisticas(ops) ==
    IF ops = <<>>
    THEN [ total_operaciones |-> 0,
           datasets_usados   |-> {},
           tipos_operaciones |-> DictTiposVacio,
           primera_operacion |-> None,
           ultima_operacion  |-> None ]
    ELSE [ total_operaciones |-> Len(ops),
           datasets_usados   |-> JuntarDatasets(ops, {}),
           tipos_operaciones |-> ContarTipos(ops, DictTiposVacio),
           primera_operacion |-> ops[1].timestamp,
           ultima_operacion  |-> ops[Len(ops)].timestamp ]

EstadisticasNulas == obtener_estadisticas(<<>>)

(***************************************************************************)
(* Journal actions                                                         *)
(***************************************************************************)
Llamada(op, arg, raised, lista, bool, stats, escritura, antes) ==
    [ op |-> op, arg |-> arg, raised |-> raised, lista |-> lista, bool |-> bool,
      stats |-> stats, escritura |-> escritura, antes |-> antes ]

SinLlamada == Llamada("ninguna", 0, None, <<>>, FALSE, EstadisticasNulas, "ninguna", <<>>)

\* RegistroOperaciones.__init__ on the store as it is now
Construir ==
    /\ jstate = "sin_construir"
    /\ LET c == cargar_operaciones(store)
       IN  /\ jstate' = IF c.raised = None THEN "abierto" ELSE "fallo"
           /\ operaciones' = c.ops
           /\ cargadas' = c.ops
           /\ ultima' = Llamada("construir", 0, c.raised, <<>>, FALSE,
                                EstadisticasNulas, "ninguna", <<>>)
    /\ registradas' = <<>>
    /\ limpiado' = FALSE
    /\ huboFallo' = FALSE
    /\ UNCHANGED <<store, clock>>
    /\ UNCHANGED <<dvars, avars>>

AgregarAlFrente(ops, nueva) == <<nueva>> \o ops

\* operaciones.append(nueva_operacion)
AgregarALista(ops, nueva) == Append(ops, nueva)

\* registrar_operacion; ahora is what datetime.now() shows in Operacion.__init__,
\* the second of the last reading or a later one
registrar_operacion(dataset, operacion, parametros, resultado, escritura) ==
    /\ jstate = "abierto"
    /\ escritura \in EscriturasPosibles(store)
    /\ \E ahora \in clock..MaxClock :
          LET nueva == Operacion(dataset, operacion, parametros, resultado, ahora)
              lista == AgregarALista(operaciones, nueva)
              g     == guardar_operaciones(lista, store, escritura)
          IN  /\ clock' = ahora
              /\ operaciones' = lista
              /\ store' = g.store
              /\ registradas' = IF limpiado THEN <<>> ELSE Append(registradas, nueva)
              /\ huboFallo' = (huboFallo \/ escritura # "ok")
              /\ ultima' = Llamada("registrar", nueva, g.raised, <<>>, FALSE,
                                   EstadisticasNulas, escritura, operaciones)
    /\ UNCHANGED <<jstate, cargadas, limpiado>>

Registrar ==
    /\ Len(operaciones) < MaxOps
    /\ \E a \in ArgsRegistrar, e \in Escrituras :
          registrar_operacion(a[1], a[2], a[3], a[4], e)
    /\ UNCHANGED <<dvars, avars>>

limpiar_solo_si_guarda(escritura) ==
    /\ jstate = "abierto"
    /\ escritura \in EscriturasPosibles(store)
    /\ LET g == guardar_operaciones(<<>>, store, escritura)
       IN  /\ operaciones' = IF g.ret THEN <<>> ELSE operaciones
           /\ store' = g.store
           /\ huboFallo' = (huboFallo \/ escritura # "ok")
           /\ ultima' = Llamada("limpiar", 0, g.raised, <<>>, g.ret,
                                EstadisticasNulas, escritura, operaciones)
    /\ limpiado' = TRUE
    /\ registradas' = <<>>
    /\ UNCHANGED <<jstate, clock, cargadas>>

\* limpiar_historial
limpiar_historial(escritura) ==
    /\ jstate = "abierto"
    /\ escritura \in EscriturasPosibles(store)
    /\ LET g == guardar_operaciones(<<>>, store, escritura)
       IN  /\ operaciones' = <<>>
           /\ store' = g.store
           /\ huboFallo' = (huboFallo \/ escritura # "ok")
           /\ ultima' = Llamada("limpiar", 0, g.raised, <<>>, g.ret,
                                EstadisticasNulas, escritura, operaciones)
    /\ limpiado' = TRUE
    /\ registradas' = <<>>
    /\ UNCHANGED <<jstate, clock, cargadas>>

Limpiar ==
    /\ \E e \in Escrituras : limpiar_historial(e)
    /\ UNCHANGED <<dvars, avars>>

Consulta(llamada) ==
    /\ jstate = "abierto"
    /\ ultima' = llamada
    /\ UNCHANGED <<store, jstate, operaciones, clock, cargadas, registradas,
                   limpiado, huboFallo>>
    /\ UNCHANGED <<dvars, avars>>

ConsultarTodas ==
    Consulta(Llamada("todas", 0, None, obtener_todas_operaciones(operaciones),
                     FALSE, EstadisticasNulas, "ninguna", <<>>))

ConsultarPorDataset ==
    \E d \in NombresDataset :
        Consulta(Llamada("por_dataset", d, None,
                         obtener_operaciones_por_dataset(operaciones, d),
                         FALSE, EstadisticasNulas, "ninguna", <<>>))

ConsultarPorTipo ==
    \E t \in TiposOperacion :
        Consulta(Llamada("por_tipo", t, None,
                         obtener_operaciones_por_tipo(operaciones, t),
                         FALSE, EstadisticasNulas, "ninguna", <<>>))

ConsultarUltimasN ==
    \E n \in 0..MaxN :
        Consulta(Llamada("ultimas_n", n, None,
                         obtener_ultimas_n_operaciones(operaciones, n),
                         FALSE, EstadisticasNulas, "ninguna", <<>>))

ConsultarEstadisticas ==
    Consulta(Llamada("estadisticas", 0, None, <<>>, FALSE,
                     obtener_estadisticas(operaciones), "ninguna", <<>>))

(***************************************************************************)
(* Registro (modelos/registro.py): _datos is a dict from field names to    *)
(* text or None                                                            *)
(***************************************************************************)
\* dict iteration order: the header order of the loader, computed fields last
OrdenCampos == <<"region", "total", "extra", "producto">>

\* Registro.obtener_campo: dict.get
obtener_campo(datos, campo) == IF campo \in DOMAIN datos THEN datos[campo] ELSE None

\* Registro.establecer_campo
establecer_campo(datos, campo, valor) ==
    [c \in (DOMAIN datos) \cup {campo} |-> IF c = campo THEN valor ELSE datos[c]]

\* Registro.tiene_campo
tiene_campo(datos, campo) == campo \in DOMAIN datos

\* Registro.es_valido
es_valido(datos) == DOMAIN datos # {}

\* datos.keys() of the copy obtener_todos_campos returns
claves(datos) == SelectSeq(OrdenCampos, LAMBDA c : c \in DOMAIN datos)

\* valor is None or valor == '' or valor == 'NULL'
EsNulo(valor) == valor = None \/ valor = "" \/ valor = "NULL"

\* the rows a behaviour may start from
RegistrosPosibles ==
    { [region |-> "A",  total |-> "10"],
      [region |-> " b", total |-> "NULL"],
      [region |-> None, total |-> ""] }

\* float(valor) for the text values that occur; the other texts raise
\* ValueError. A number is held as its count of thousandths, so that a value
\* with more than two decimals can be told from its rounding.
TextosNumericos == {"0", "0.004", "5", "10", "15", "20", "25"}
float_ok(valor) == valor \in TextosNumericos
float(valor) ==
    CASE valor = "0"     -> 0
      [] valor = "0.004" -> 4
      [] valor = "5"     -> 5000
      [] valor = "10"    -> 10000
      [] valor = "15"    -> 15000
      [] valor = "20"    -> 20000
      [] valor = "25"    -> 25000

\* round(x, 2) for x >= 0, away from the ties (no sum of the values above
\* ends in 5 thousandths)
round(x) == ((x + 5) \div 10) * 10

\* ' '.join(valor.split())
split_join(valor) ==
    CASE valor = " b" -> "b"
      [] OTHER        -> valor

\* str.upper and str.lower
upper(valor) ==
    CASE valor = "a" -> "A"
      [] valor = "b" -> "B"
      [] valor = "null" -> "NULL"
      [] OTHER -> valor
lower(valor) ==
    CASE valor = "A" -> "a"
      [] valor = "B" -> "b"
      [] valor = "NULL" -> "null"
      [] OTHER -> valor

(***************************************************************************)
(* Dataset (modelos/dataset.py): a name and a list of Registro references  *)
(***************************************************************************)
\* Dataset.__init__
Dataset(nombre) == [nombre |-> nombre, registros |-> <<>>]

agregar_al_frente(d, id) == [d EXCEPT !.registros = <<id>> \o @]

\* Dataset.agregar_registro
agregar_registro(d, id) == [d EXCEPT !.registros = Append(@, id)]

\* Dataset.agregar_registros
RECURSIVE agregar_registros(_, _)
agregar_registros(d, ids) ==
    IF ids = <<>> THEN d
    ELSE agregar_registros(agregar_registro(d, Head(ids)), Tail(ids))

\* Dataset.obtener_registros: a copy of the list, the same references
obtener_registros(d) == [i \in 1..Len(d.registros) |-> d.registros[i]]

\* Dataset.cantidad_registros
cantidad_registros(d) == Len(d.registros)

\* Dataset.esta_vacio
esta_vacio(d) == Len(d.registros) = 0

RECURSIVE FiltrarLoopAlFrente(_, _, _)
FiltrarLoopAlFrente(pendientes, cumplen, filtrado) ==
    IF pendientes = <<>> THEN filtrado
    ELSE FiltrarLoopAlFrente(Tail(pendientes), cumplen,
                     IF Head(pendientes) \in cumplen
                        THEN agregar_al_frente(filtrado, Head(pendientes))
                        ELSE filtrado)

\* the loop of Dataset.filtrar; cumplen is the set of records on which
\* condicion returns true
RECURSIVE FiltrarLoop(_, _, _)
FiltrarLoop(pendientes, cumplen, filtrado) ==
    IF pendientes = <<>> THEN filtrado
    ELSE FiltrarLoop(Tail(pendientes), cumplen,
                     IF Head(pendientes) \in cumplen
                        THEN agregar_registro(filtrado, Head(pendientes))
                        ELSE filtrado)

\* Dataset.filtrar
filtrar(d, cumplen) ==
    FiltrarLoop(d.registros, cumplen, Dataset(d.nombre \o "_filtrado"))

\* Dataset.obtener_campos
obtener_campos(h, d) ==
    IF esta_vacio(d) THEN <<>> ELSE claves(h[d.registros[1]])

RECURSIVE obtener_valores_campo_con_None(_, _, _)
obtener_valores_campo_con_None(h, regs, campo) ==
    IF regs = <<>> THEN <<>>
    ELSE <<obtener_campo(h[Head(regs)], campo)>>
            \o obtener_valores_campo_con_None(h, Tail(regs), campo)

\* Dataset.obtener_valores_campo
RECURSIVE obtener_valores_campo(_, _, _)
obtener_valores_campo(h, regs, campo) ==
    IF regs = <<>> THEN <<>>
    ELSE LET valor == obtener_campo(h[Head(regs)], campo)
         IN  (IF valor # None THEN <<valor>> ELSE <<>>)
                \o obtener_valores_campo(h, Tail(regs), campo)

Elementos(s) == {s[i] : i \in 1..Len(s)}

\* Dataset.obtener_valores_unicos: list(set(valores)), in no specified order
valores_unicos(h, d, campo) == Elementos(obtener_valores_campo(h, d.registros, campo))

Permutaciones(S) ==
    {p \in [1..Cardinality(S) -> S] : \A i, j \in 1..Cardinality(S) : p[i] = p[j] => i = j}

\* list slicing s[:hasta] with Python's index rules
PySliceHasta(s, hasta) ==
    LET h0 == IF hasta < 0 THEN Len(s) + hasta ELSE hasta
        h1 == IF h0 < 0 THEN 0 ELSE IF h0 > Len(s) THEN Len(s) ELSE h0
    IN  SubSeq(s, 1, h1)

(***************************************************************************)
(* Transformador (procesadores/transformador.py)                           *)
(***************************************************************************)
\* the records on which the condicion of filtrar_por_campo is true
CumplenCampo(h, d, nombre_campo, valor) ==
    {id \in Elementos(d.registros) : obtener_campo(h[id], nombre_campo) = valor}

\* Transformador.filtrar_por_campo
filtrar_por_campo(h, d, nombre_campo, valor) ==
    filtrar(d, CumplenCampo(h, d, nombre_campo, valor))

CumplenRangoExclusivo(h, d, nombre_campo, minimo, maximo) ==
    {id \in Elementos(d.registros) :
        LET valor == obtener_campo(h[id], nombre_campo)
        IN  /\ valor # None
            /\ float_ok(valor)
            /\ minimo < float(valor) /\ float(valor) < maximo}

\* the records on which the condicion of filtrar_por_rango_numerico is true
CumplenRango(h, d, nombre_campo, minimo, maximo) ==
    {id \in Elementos(d.registros) :
        LET valor == obtener_campo(h[id], nombre_campo)
        IN  /\ valor # None
            /\ float_ok(valor)
            /\ minimo <= float(valor) /\ float(valor) <= maximo}

\* Transformador.filtrar_por_rango_numerico
filtrar_por_rango_numerico(h, d, nombre_campo, minimo, maximo) ==
    filtrar(d, CumplenRango(h, d, nombre_campo, minimo, maximo))

\* Transformador.obtener_primeros_n
obtener_primeros_n(d, n) ==
    agregar_registros(Dataset(d.nombre \o "_top" \o ToString(n)),
                      PySliceHasta(obtener_registros(d), n))

\* Transformador.agrupar_por_campo, the groups in the order the unique
\* values are visited
RECURSIVE agrupar_por_campo(_, _, _, _)
agrupar_por_campo(h, d, nombre_campo, valores) ==
    IF valores = <<>> THEN <<>>
    ELSE <<[valor |-> Head(valores),
            dataset |-> filtrar_por_campo(h, d, nombre_campo, Head(valores))]>>
           \o agrupar_por_campo(h, d, nombre_campo, Tail(valores))

\* the value funcion_calculo returns for a record
Funciones == {"constante", "copia_total"}
Calcular(funcion, datos) ==
    CASE funcion = "constante"   -> "1"
      [] funcion = "copia_total" -> obtener_campo(datos, "total")

\* what an in-place operation has done so far: the heap, the writes made
\* (record, field, value) and the number it reports
Efecto(h, escritos, cuenta) == [heap |-> h, escritos |-> escritos, cuenta |-> cuenta]

\* registro.establecer_campo(campo, valor) on the record id, counted
Escribir(e, id, campo, valor) ==
    Efecto([e.heap EXCEPT ![id] = establecer_campo(@, campo, valor)],
           e.escritos \cup {<<id, campo, valor>>}, e.cuenta + 1)

\* Transformador.agregar_campo_calculado
RECURSIVE agregar_campo_calculado(_, _, _, _)
agregar_campo_calculado(e, regs, nombre_nuevo_campo, funcion) ==
    IF regs = <<>> THEN e
    ELSE agregar_campo_calculado(
             Escribir(e, Head(regs), nombre_nuevo_campo,
                      Calcular(funcion, e.heap[Head(regs)])),
             Tail(regs), nombre_nuevo_campo, funcion)

(***************************************************************************)
(* Limpiador (procesadores/limpiador.py)                                   *)
(***************************************************************************)
\* the campos argument: None or a list of field names
CamposNone == [esNone |-> TRUE, lista |-> <<>>]
CamposLista(l) == [esNone |-> FALSE, lista |-> l]

\* campos if campos else datos.keys()
CamposATratar(campos, datos) ==
    IF campos.esNone \/ campos.lista = <<>> THEN claves(datos) ELSE campos.lista

\* the inner loop of limpiar_valores_nulos on one record; datos is the copy
\* taken before the loop
RECURSIVE LimpiarNulosRegistro(_, _, _, _, _)
LimpiarNulosRegistro(e, id, datos, campos, valor_reemplazo) ==
    IF campos = <<>> THEN e
    ELSE LET campo == Head(campos)
         IN  LimpiarNulosRegistro(
                 IF campo \in DOMAIN datos /\ EsNulo(datos[campo])
                    THEN Escribir(e, id, campo, valor_reemplazo) ELSE e,
                 id, datos, Tail(campos), valor_reemplazo)

\* Limpiador.limpiar_valores_nulos
RECURSIVE limpiar_valores_nulos(_, _, _, _)
limpiar_valores_nulos(e, regs, campos, valor_reemplazo) ==
    IF regs = <<>> THEN e
    ELSE LET datos == e.heap[Head(regs)]
         IN  limpiar_valores_nulos(
                 LimpiarNulosRegistro(e, Head(regs), datos,
                                      CamposATratar(campos, datos), valor_reemplazo),
                 Tail(regs), campos, valor_reemplazo)

\* valor_limpio of normalizar_texto
Normalizado(valor, mayusculas) ==
    IF mayusculas THEN upper(split_join(valor)) ELSE lower(split_join(valor))

\* the inner loop of normalizar_texto on one record (every value that is
\* not None is a str)
RECURSIVE NormalizarRegistro(_, _, _, _, _)
NormalizarRegistro(e, id, datos, campos, mayusculas) ==
    IF campos = <<>> THEN e
    ELSE LET campo == Head(campos)
         IN  NormalizarRegistro(
                 IF /\ campo \in DOMAIN datos
                    /\ datos[campo] # None
                    /\ datos[campo] # Normalizado(datos[campo], mayusculas)
                    THEN Escribir(e, id, campo, Normalizado(datos[campo], mayusculas))
                    ELSE e,
                 id, datos, Tail(campos), mayusculas)

\* Limpiador.normalizar_texto
RECURSIVE normalizar_texto(_, _, _, _)
normalizar_texto(e, regs, campos, mayusculas) ==
    IF regs = <<>> THEN e
    ELSE LET datos == e.heap[Head(regs)]
         IN  normalizar_texto(
                 NormalizarRegistro(e, Head(regs), datos,
                                    CamposATratar(campos, datos), mayusculas),
                 Tail(regs), campos, mayusculas)

EstaEnListaPorIdentidad(h, id, lista) ==
    \E i \in 1..Len(lista) : lista[i] = id

\* registro in registros_unicos: list membership by identity or __eq__
\* (Registro.__eq__ compares the _datos dicts)
EstaEnLista(h, id, lista) ==
    \E i \in 1..Len(lista) : lista[i] = id \/ h[lista[i]] = h[id]

\* the loop of eliminar_duplicados
RECURSIVE DuplicadosLoop(_, _, _, _)
DuplicadosLoop(h, pendientes, registros_unicos, duplicados) ==
    IF pendientes = <<>>
    THEN [registros |-> registros_unicos, cuenta |-> duplicados]
    ELSE IF ~EstaEnLista(h, Head(pendientes), registros_unicos)
         THEN DuplicadosLoop(h, Tail(pendientes),
                             Append(registros_unicos, Head(pendientes)), duplicados)
         ELSE DuplicadosLoop(h, Tail(pendientes), registros_unicos, duplicados + 1)

\* Dataset.limpiar followed by Dataset.agregar_registros
Rellenar(d, ids) == agregar_registros([d EXCEPT !.registros = <<>>], ids)

eliminar_duplicados_cuenta_vistos(h, d) ==
    LET r == DuplicadosLoop(h, obtener_registros(d), <<>>, 0)
    IN  [dataset |-> Rellenar(d, r.registros), cuenta |-> Len(d.registros)]

\* Limpiador.eliminar_duplicados: the Dataset afterwards and the count
eliminar_duplicados(h, d) ==
    LET r == DuplicadosLoop(h, obtener_registros(d), <<>>, 0)
    IN  [dataset |-> Rellenar(d, r.registros), cuenta |-> r.cuenta]

TieneDatosConNULL(datos) == \E c \in DOMAIN datos : datos[c] # None /\ datos[c] # ""

\* tiene_datos of eliminar_registros_vacios
TieneDatos(datos) == \E c \in DOMAIN datos : ~EsNulo(datos[c])

RECURSIVE VaciosLoopSoloSinCampos(_, _, _, _)
VaciosLoopSoloSinCampos(h, pendientes, registros_validos, eliminados) ==
    IF pendientes = <<>>
    THEN [registros |-> registros_validos, cuenta |-> eliminados]
    ELSE IF es_valido(h[Head(pendientes)])
         THEN VaciosLoopSoloSinCampos(h, Tail(pendientes),
                         Append(registros_validos, Head(pendientes)), eliminados)
         ELSE VaciosLoopSoloSinCampos(h, Tail(pendientes), registros_validos,
                                      eliminados + 1)

\* the loop of eliminar_registros_vacios
RECURSIVE VaciosLoop(_, _, _, _)
VaciosLoop(h, pendientes, registros_validos, eliminados) ==
    IF pendientes = <<>>
    THEN [registros |-> registros_validos, cuenta |-> eliminados]
    ELSE IF es_valido(h[Head(pendientes)]) /\ TieneDatos(h[Head(pendientes)])
         THEN VaciosLoop(h, Tail(pendientes),
                         Append(registros_validos, Head(pendientes)), eliminados)
         ELSE VaciosLoop(h, Tail(pendientes), registros_validos, eliminados + 1)

\* Limpiador.eliminar_registros_vacios
eliminar_registros_vacios(h, d) ==
    LET r == VaciosLoop(h, obtener_registros(d), <<>>, 0)
    IN  [dataset |-> Rellenar(d, r.registros), cuenta |-> r.cuenta]

limpiar_completo_vacios_primero(h, d) ==
    LET vac == eliminar_registros_vacios(h, d)
        dup == eliminar_duplicados(h, vac.dataset)
    IN  [ dataset |-> dup.dataset,
          duplicados_eliminados |-> dup.cuenta,
          vacios_eliminados |-> vac.cuenta,
          registros_finales |-> cantidad_registros(dup.dataset) ]

\* Limpiador.limpiar_completo
limpiar_completo(h, d) ==
    LET dup == eliminar_duplicados(h, d)
        vac == eliminar_registros_vacios(h, dup.dataset)
    IN  [ dataset |-> vac.dataset,
          duplicados_eliminados |-> dup.cuenta,
          vacios_eliminados |-> vac.cuenta,
          registros_finales |-> cantidad_registros(vac.dataset) ]

\* the order of str values (by code point) for the texts that occur
RangoTexto(valor) ==
    CASE valor = ""       -> 0
      [] valor = " b"     -> 1
      [] valor = "0"      -> 2
      [] valor = "0.004"  -> 3
      [] valor = "1"      -> 4
      [] valor = "10"     -> 5
      [] valor = "15"     -> 6
      [] valor = "20"     -> 7
      [] valor = "25"     -> 8
      [] valor = "5"      -> 9
      [] valor = "A"      -> 10
      [] valor = "B"      -> 11
      [] valor = "NULL"   -> 12
      [] valor = "a"      -> 13
      [] valor = "b"      -> 14
      [] valor = "null"   -> 15
      [] valor = "x"      -> 16

\* key=lambda r: r.obtener_campo(campo) or ""
ClaveOrden(datos, campo) ==
    LET valor == obtener_campo(datos, campo)
    IN  IF valor = None \/ valor = "" THEN "" ELSE valor

RECURSIVE InsertarOrdenadoInestable(_, _, _, _, _)
InsertarOrdenadoInestable(h, ordenados, id, campo, reverso) ==
    IF ordenados = <<>> THEN <<id>>
    ELSE LET k  == RangoTexto(ClaveOrden(h[id], campo))
             k1 == RangoTexto(ClaveOrden(h[Head(ordenados)], campo))
             antes == IF reverso THEN k >= k1 ELSE k < k1
         IN  IF antes THEN <<id>> \o ordenados
             ELSE <<Head(ordenados)>>
                    \o InsertarOrdenadoInestable(h, Tail(ordenados), id, campo, reverso)

\* list.sort is stable, also with reverse=True: x goes behind every element
\* that does not have to follow it
RECURSIVE InsertarOrdenado(_, _, _, _, _)
InsertarOrdenado(h, ordenados, id, campo, reverso) ==
    IF ordenados = <<>> THEN <<id>>
    ELSE LET k  == RangoTexto(ClaveOrden(h[id], campo))
             k1 == RangoTexto(ClaveOrden(h[Head(ordenados)], campo))
             antes == IF reverso THEN k > k1 ELSE k < k1
         IN  IF antes THEN <<id>> \o ordenados
             ELSE <<Head(ordenados)>>
                    \o InsertarOrdenado(h, Tail(ordenados), id, campo, reverso)

RECURSIVE OrdenarLoop(_, _, _, _, _)
OrdenarLoop(h, pendientes, ordenados, campo, reverso) ==
    IF pendientes = <<>> THEN ordenados
    ELSE OrdenarLoop(h, Tail(pendientes),
                     InsertarOrdenado(h, ordenados, Head(pendientes), campo, reverso),
                     campo, reverso)

\* Dataset.ordenar
ordenar(h, d, campo, reverso) ==
    [d EXCEPT !.registros = OrdenarLoop(h, d.registros, <<>>, campo, reverso)]

(***************************************************************************)
(* Calls on Datasets                                                       *)
(***************************************************************************)
SinGrupos == {}

LlamadaD(op, ds, res, antes, cumplen, escritos, ret, grupos) ==
    [ op |-> op, ds |-> ds, res |-> res, antes |-> antes, cumplen |-> cumplen,
      escritos |-> escritos, ret |-> ret, grupos |-> grupos ]

SinLlamadaD == LlamadaD("ninguna", 0, {}, <<>>, {}, {}, 0, SinGrupos)

IdsDataset == 1..Len(dsets)

\* a derived Dataset becomes a new object
Derivar(op, k, nuevo, cumplen) ==
    /\ llamadas < MaxLlamadas
    /\ llamadas' = llamadas + 1
    /\ dsets' = Append(dsets, nuevo)
    /\ dultima' = LlamadaD(op, k, {Len(dsets) + 1}, dsets[k].registros, cumplen,
                           {}, 0, SinGrupos)
    /\ UNCHANGED heap

FiltrarCopiando ==
    /\ llamadas < MaxLlamadas
    /\ \E k \in IdsDataset, cumplen \in SUBSET (1..Len(heap)) :
          LET f == filtrar(dsets[k], cumplen)
              n == Len(f.registros)
          IN  /\ heap' = heap \o [i \in 1..n |-> heap[f.registros[i]]]
              /\ dsets' = Append(dsets, [f EXCEPT !.registros = [i \in 1..n |-> Len(heap) + i]])
              /\ dultima' = LlamadaD("filtrar", k, {Len(dsets) + 1}, dsets[k].registros,
                                     cumplen, {}, 0, SinGrupos)
    /\ llamadas' = llamadas + 1
    /\ UNCHANGED <<jvars, avars>>

\* Dataset.filtrar with any condicion: the set of records it accepts
Filtrar ==
    /\ \E k \in IdsDataset, cumplen \in SUBSET (1..Len(heap)) :
          Derivar("filtrar", k, filtrar(dsets[k], cumplen), cumplen)
    /\ UNCHANGED <<jvars, avars>>

ValoresFiltro == {<<"region", "A">>, <<"total", "NULL">>}

FiltrarPorCampo ==
    /\ \E k \in IdsDataset, a \in ValoresFiltro :
          Derivar("filtrar_por_campo", k, filtrar_por_campo(heap, dsets[k], a[1], a[2]),
                  CumplenCampo(heap, dsets[k], a[1], a[2]))
    /\ UNCHANGED <<jvars, avars>>

Rangos == {<<"total", "10", "20">>, <<"total", "15", "25">>, <<"region", "0", "25">>}

FiltrarPorRango ==
    /\ \E k \in IdsDataset, r \in Rangos :
          Derivar("filtrar_por_rango_numerico", k,
                  filtrar_por_rango_numerico(heap, dsets[k], r[1], float(r[2]), float(r[3])),
                  CumplenRango(heap, dsets[k], r[1], float(r[2]), float(r[3])))
    /\ UNCHANGED <<jvars, avars>>

PrimerosN ==
    /\ \E k \in IdsDataset, n \in {0 - 1, 1, MaxRegs} :
          Derivar("obtener_primeros_n", k, obtener_primeros_n(dsets[k], n), {})
    /\ UNCHANGED <<jvars, avars>>

AgruparPorCampo ==
    /\ llamadas < MaxLlamadas
    /\ \E k \in IdsDataset, campo \in {"region", "total"} :
          \E orden \in Permutaciones(valores_unicos(heap, dsets[k], campo)) :
              LET grupos == agrupar_por_campo(heap, dsets[k], campo, orden)
                  n == Len(grupos)
              IN  /\ dsets' = dsets \o [i \in 1..n |-> grupos[i].dataset]
                  /\ dultima' = LlamadaD("agrupar_por_campo", k,
                                    {Len(dsets) + i : i \in 1..n}, dsets[k].registros,
                                    {}, {}, 0,
                                    {<<grupos[i].valor, Len(dsets) + i>> : i \in 1..n})
    /\ llamadas' = llamadas + 1
    /\ UNCHANGED heap
    /\ UNCHANGED <<jvars, avars>>

\* an operation that writes fields of the records of Dataset k
Mutar(op, k, e) ==
    /\ llamadas < MaxLlamadas
    /\ llamadas' = llamadas + 1
    /\ heap' = e.heap
    /\ dultima' = LlamadaD(op, k, {}, dsets[k].registros, {}, e.escritos, e.cuenta,
                           SinGrupos)
    /\ UNCHANGED dsets

ArgsCampos == {CamposNone, CamposLista(<<>>), CamposLista(<<"total">>)}

LimpiarValoresNulos ==
    /\ \E k \in IdsDataset, campos \in ArgsCampos :
          Mutar("limpiar_valores_nulos", k,
                limpiar_valores_nulos(Efecto(heap, {}, 0), obtener_registros(dsets[k]),
                                      campos, "0"))
    /\ UNCHANGED <<jvars, avars>>

NormalizarTexto ==
    /\ \E k \in IdsDataset,
          a \in {<<CamposNone, FALSE>>, <<CamposLista(<<"region">>), TRUE>>} :
          Mutar("normalizar_texto", k,
                normalizar_texto(Efecto(heap, {}, 0), obtener_registros(dsets[k]),
                                 a[1], a[2]))
    /\ UNCHANGED <<jvars, avars>>

AgregarCampoCalculado ==
    /\ \E k \in IdsDataset, funcion \in Funciones :
          Mutar("agregar_campo_calculado", k,
                agregar_campo_calculado(Efecto(heap, {}, 0), obtener_registros(dsets[k]),
                                        "extra", funcion))
    /\ UNCHANGED <<jvars, avars>>

\* AplicacionProcesadorDatos.__init__; 0 stands for None
AppInicial == [dataset |-> 0, dataset_original |-> 0, limpiador |-> 0, transformador |-> 0]

\* no application
AIdle ==
    /\ app = AppInicial
    /\ astate = "sin_iniciar"
    /\ realizadas = <<>>
    /\ pasos = 0

\* no Dataset yet
DIdle ==
    /\ heap = <<>>
    /\ dsets = <<>>
    /\ dultima = SinLlamadaD
    /\ llamadas = 0

\* no journal
JIdle ==
    /\ store = StoreAusente
    /\ jstate = "sin_construir"
    /\ operaciones = <<>>
    /\ clock = 0
    /\ ultima = SinLlamada
    /\ cargadas = <<>>
    /\ registradas = <<>>
    /\ limpiado = FALSE
    /\ huboFallo = FALSE

\* one Dataset "ventas" of at most MaxRegs records, as a loader builds it
DInit ==
    /\ \E n \in 0..MaxRegs :
          /\ heap \in [1..n -> RegistrosPosibles]
          /\ dsets = <<agregar_registros(Dataset("ventas"), [i \in 1..n |-> i])>>
    /\ dultima = SinLlamadaD
    /\ llamadas = 0

InitDatos == JIdle /\ DInit /\ AIdle

NextDatos ==
    \/ Filtrar
    \/ FiltrarPorCampo
    \/ FiltrarPorRango
    \/ PrimerosN
    \/ AgruparPorCampo
    \/ LimpiarValoresNulos
    \/ NormalizarTexto
    \/ AgregarCampoCalculado

\* Datasets, their views and the in-place operations
SpecDatos == InitDatos /\ [][NextDatos]_vars

(***************************************************************************)
(* CargadorCSV (cargadores/cargador_csv.py)                                *)
(***************************************************************************)
\* the cells of data/ventas.csv under the header region,total
FilasVentas ==
    << <<"A", "10">>, <<"B", "25">>, <<"A", "10">>, <<"", "">> >>

\* str.strip
strip(valor) ==
    CASE valor = " b" -> "b"
      [] OTHER        -> valor

\* valor.strip() if valor else None
Celda(valor) == IF valor = "" THEN None ELSE strip(valor)

\* CargadorCSV.cargar when the file can be read: one new Registro per row
cargar(h, nombre, filas) ==
    [ heap |-> h \o [i \in 1..Len(filas) |->
                        [region |-> Celda(filas[i][1]), total |-> Celda(filas[i][2])]],
      dataset |-> agregar_registros(Dataset(nombre),
                                    [i \in 1..Len(filas) |-> Len(h) + i]) ]

(***************************************************************************)
(* Analyzers, as far as the application records their results              *)
(***************************************************************************)
\* len(resultados['campos']) of AnalizadorEstadistico.analizar: the fields
\* for which _analizar_campo finds values
campos_analizados(h, d) ==
    IF esta_vacio(d) THEN 0
    ELSE Cardinality({c \in Elementos(obtener_campos(h, d)) :
                        obtener_valores_campo(h, d.registros, c) # <<>>})

\* the loop of AnalizadorVentas._calcular_ventas_totales
RECURSIVE SumaVentas(_, _)
SumaVentas(h, regs) ==
    IF regs = <<>> THEN 0
    ELSE LET valor_total == obtener_campo(h[Head(regs)], "total")
         IN  (IF valor_total # None /\ valor_total # "" /\ float_ok(valor_total)
                 THEN float(valor_total) ELSE 0)
                + SumaVentas(h, Tail(regs))

\* AnalizadorVentas._calcular_ventas_totales
calcular_ventas_totales(h, regs) == round(SumaVentas(h, regs))

\* resultados['ventas_totales'] of AnalizadorVentas.analizar
ventas_totales(h, d) ==
    IF esta_vacio(d) THEN 0 ELSE calcular_ventas_totales(h, obtener_registros(d))

(***************************************************************************)
(* AplicacionProcesadorDatos (main.py)                                     *)
(***************************************************************************)
\* _validar_dataset_cargado
validar_dataset_cargado ==
    app.dataset # 0 /\ ~esta_vacio(dsets[app.dataset])

\* a menu action runs while the program does, and ends with the operations
\* it carried out on the dataset added to the history
Accion(hechas) ==
    /\ astate = "ejecutando"
    /\ pasos < MaxAcciones
    /\ pasos' = pasos + 1
    /\ realizadas' = realizadas \o hechas
    /\ UNCHANGED <<dultima, llamadas>>

\* an exception no handler catches reaches main(), which prints it and
\* returns: the program is over
Aborta ==
    /\ Accion(<<>>)
    /\ astate' = "terminada"
    /\ UNCHANGED <<heap, dsets, app, jvars>>

\* self.registro_bd.registrar_operacion(dataset=.., operacion=.., parametros=..)
RegistrarEnBD(nombre, etiqueta, items) ==
    \E e \in Escrituras :
        registrar_operacion(nombre, etiqueta, [esNone |-> FALSE, items |-> items],
                            ResultadoPorDefecto, e)

\* self.dataset = nuevo; self.transformador = Transformador(self.dataset);
\* self.limpiador = Limpiador(self.dataset)
CambiarDataset(nuevo) ==
    /\ dsets' = Append(dsets, nuevo)
    /\ app' = [app EXCEPT !.dataset = Len(dsets) + 1,
                          !.transformador = Len(dsets) + 1,
                          !.limpiador = Len(dsets) + 1]

\* the Dataset the cleaner is bound to is changed in place
CambiarRegistros(k, d) == dsets' = [dsets EXCEPT ![k] = d]

ResultadosIO == {"ok", "falla"}

\* _cargar_dataset with a valid selection; lectura1 and lectura2 are the
\* outcomes of the two CargadorCSV.cargar calls
CargarDataset ==
    \E lectura1, lectura2 \in ResultadosIO :
        LET c1 == cargar(heap, "ventas", FilasVentas)
            c2 == cargar(c1.heap, "ventas", FilasVentas)
            id1 == Len(dsets) + 1
        IN  CASE lectura1 = "falla" ->
                   /\ lectura2 = "falla"
                   /\ Accion(<<>>)
                   /\ UNCHANGED <<heap, dsets, app, astate, jvars>>
              [] lectura1 = "ok" /\ lectura2 = "falla" ->
                   /\ Accion(<<>>)
                   /\ heap' = c1.heap
                   /\ dsets' = Append(dsets, c1.dataset)
                   /\ app' = [app EXCEPT !.dataset = id1]
                   /\ UNCHANGED <<astate, jvars>>
              [] lectura1 = "ok" /\ lectura2 = "ok" ->
                   /\ Accion(<<"Cargar Dataset">>)
                   /\ heap' = c2.heap
                   /\ dsets' = dsets \o <<c1.dataset, c2.dataset>>
                   /\ app' = [dataset |-> id1, dataset_original |-> id1 + 1,
                              limpiador |-> id1, transformador |-> id1]
                   /\ RegistrarEnBD(c1.dataset.nombre, "Cargar Dataset",
                          {<<"archivo", "ventas.csv">>,
                           <<"registros", cantidad_registros(c1.dataset)>>})
                   /\ UNCHANGED astate

\* _ver_resumen_datos
VerResumen ==
    /\ validar_dataset_cargado
    /\ Accion(<<"Ver Resumen">>)
    /\ RegistrarEnBD(dsets[app.dataset].nombre, "Ver Resumen",
           {<<"registros_mostrados", Min(5, cantidad_registros(dsets[app.dataset]))>>})
    /\ UNCHANGED <<heap, dsets, app, astate>>

\* _limpiar_datos, option 1
LimpiezaCompleta ==
    /\ validar_dataset_cargado
    /\ IF app.limpiador = 0
          THEN Aborta
          ELSE /\ Accion(<<"Limpieza Completa">>)
               /\ LET r == limpiar_completo(heap, dsets[app.limpiador])
                  IN  /\ CambiarRegistros(app.limpiador, r.dataset)
                      /\ RegistrarEnBD(dsets[app.dataset].nombre, "Limpieza Completa",
                             {<<"duplicados_eliminados", r.duplicados_eliminados>>,
                              <<"vacios_eliminados", r.vacios_eliminados>>})
               /\ UNCHANGED <<heap, app, astate>>

\* _limpiar_datos, option 2
EliminarDuplicados ==
    /\ validar_dataset_cargado
    /\ IF app.limpiador = 0
          THEN Aborta
          ELSE /\ Accion(<<"Eliminar Duplicados">>)
               /\ LET r == eliminar_duplicados(heap, dsets[app.limpiador])
                  IN  /\ CambiarRegistros(app.limpiador, r.dataset)
                      /\ RegistrarEnBD(dsets[app.dataset].nombre, "Eliminar Duplicados",
                             {<<"duplicados_eliminados", r.cuenta>>})
               /\ UNCHANGED <<heap, app, astate>>

\* _limpiar_datos, option 3
EliminarVacios ==
    /\ validar_dataset_cargado
    /\ IF app.limpiador = 0
          THEN Aborta
          ELSE /\ Accion(<<"Eliminar Vacíos">>)
               /\ LET r == eliminar_registros_vacios(heap, dsets[app.limpiador])
                  IN  /\ CambiarRegistros(app.limpiador, r.dataset)
                      /\ RegistrarEnBD(dsets[app.dataset].nombre, "Eliminar Vacíos",
                             {<<"vacios_eliminados", r.cuenta>>})
               /\ UNCHANGED <<heap, app, astate>>

\* campos_limpiar of _limpiar_valores_nulos for the numbers typed
RECURSIVE CamposElegidos(_, _)
CamposElegidos(campos, indices) ==
    IF indices = <<>> THEN <<>>
    ELSE (IF 1 <= Head(indices) /\ Head(indices) <= Len(campos)
             THEN <<campos[Head(indices)]>> ELSE <<>>)
           \o CamposElegidos(campos, Tail(indices))

\* what is typed at "Ingrese números de campos": 'todos' or numbers
Selecciones == {<<>>, <<2>>, <<7>>}

\* _limpiar_datos, option 4: _limpiar_valores_nulos (<<>> stands for 'todos')
LimpiarNulos ==
    /\ validar_dataset_cargado
    /\ IF app.limpiador = 0
          THEN Aborta
          ELSE /\ Accion(<<"Limpiar Valores Nulos">>)
               /\ \E seleccion \in Selecciones :
                     LET campos == obtener_campos(heap, dsets[app.dataset])
                         campos_limpiar == IF seleccion = <<>> THEN CamposNone
                                           ELSE CamposLista(CamposElegidos(campos, seleccion))
                         e == limpiar_valores_nulos(Efecto(heap, {}, 0),
                                  obtener_registros(dsets[app.limpiador]), campos_limpiar, "0")
                     IN  /\ heap' = e.heap
                         /\ RegistrarEnBD(dsets[app.dataset].nombre, "Limpiar Valores Nulos",
                                {<<"campos", campos_limpiar>>, <<"valor_reemplazo", "0">>,
                                 <<"valores_reemplazados", e.cuenta>>})
               /\ UNCHANGED <<dsets, app, astate>>

\* _limpiar_datos, option 5: _mostrar_reporte_calidad
ReporteCalidad ==
    /\ validar_dataset_cargado
    /\ IF app.limpiador = 0
          THEN Aborta
          ELSE /\ Accion(<<"Reporte de Calidad">>)
               /\ UNCHANGED <<heap, dsets, app, astate, jvars>>

\* _aplicar_filtros, option 1: _filtrar_por_campo
AppFiltrarPorCampo ==
    /\ validar_dataset_cargado
    /\ IF app.transformador = 0
          THEN Aborta
          ELSE /\ Accion(<<"Filtrar por Campo">>)
               /\ LET campos == obtener_campos(heap, dsets[app.dataset])
                  IN  \E indice \in 1..Len(campos), valor \in {"A", "NULL"} :
                         LET dataset_filtrado ==
                                 filtrar_por_campo(heap, dsets[app.transformador], campos[indice], valor)
                         IN  /\ RegistrarEnBD(dsets[app.dataset].nombre, "Filtrar por Campo",
                                    {<<"campo", campos[indice]>>, <<"valor", valor>>,
                                     <<"registros_resultantes", cantidad_registros(dataset_filtrado)>>})
                             /\ CambiarDataset(dataset_filtrado)
               /\ UNCHANGED <<heap, astate>>

\* _aplicar_filtros, option 2: _filtrar_por_rango
AppFiltrarPorRango ==
    /\ validar_dataset_cargado
    /\ IF app.transformador = 0
          THEN Aborta
          ELSE /\ Accion(<<"Filtrar por Rango">>)
               /\ LET campos == obtener_campos(heap, dsets[app.dataset])
                  IN  \E indice \in 1..Len(campos), r \in {<<"10", "20">>} :
                         LET dataset_filtrado ==
                                 filtrar_por_rango_numerico(heap, dsets[app.transformador],
                                                            campos[indice], float(r[1]), float(r[2]))
                         IN  /\ RegistrarEnBD(dsets[app.dataset].nombre, "Filtrar por Rango",
                                    {<<"campo", campos[indice]>>, <<"minimo", r[1]>>,
                                     <<"maximo", r[2]>>,
                                     <<"registros_resultantes", cantidad_registros(dataset_filtrado)>>})
                             /\ CambiarDataset(dataset_filtrado)
               /\ UNCHANGED <<heap, astate>>

\* _aplicar_filtros, option 3: _ordenar_por_campo
AppOrdenar ==
    /\ validar_dataset_cargado
    /\ IF app.transformador = 0
          THEN Aborta
          ELSE /\ Accion(<<"Ordenar por Campo">>)
               /\ LET campos == obtener_campos(heap, dsets[app.dataset])
                  IN  \E indice \in 1..Len(campos), descendente \in BOOLEAN :
                         /\ CambiarRegistros(app.transformador,
                                ordenar(heap, dsets[app.transformador], campos[indice], descendente))
                         /\ RegistrarEnBD(dsets[app.dataset].nombre, "Ordenar por Campo",
                                {<<"campo", campos[indice]>>, <<"descendente", descendente>>})
               /\ UNCHANGED <<heap, app, astate>>

\* _aplicar_filtros, option 4: _agrupar_por_campo (the totals are printed)
AppAgrupar ==
    /\ validar_dataset_cargado
    /\ IF app.transformador = 0
          THEN Aborta
          ELSE /\ Accion(<<"Agrupar por Campo">>)
               /\ UNCHANGED <<heap, dsets, app, astate, jvars>>

\* _aplicar_filtros, option 5: _mostrar_primeros_n
AppPrimerosN ==
    /\ validar_dataset_cargado
    /\ IF app.transformador = 0
          THEN Aborta
          ELSE /\ Accion(<<"Primeros N">>)
               /\ \E n \in {0 - 1, 0, 1} :
                     CambiarDataset(obtener_primeros_n(dsets[app.transformador], n))
               /\ UNCHANGED <<heap, astate, jvars>>

\* _analizar_estadisticas
AnalisisEstadistico ==
    /\ validar_dataset_cargado
    /\ Accion(<<"Análisis Estadístico">>)
    /\ RegistrarEnBD(dsets[app.dataset].nombre, "Análisis Estadístico",
           {<<"campos_analizados", campos_analizados(heap, dsets[app.dataset])>>})
    /\ UNCHANGED <<heap, dsets, app, astate>>

\* _analizar_ventas
AnalisisVentas ==
    /\ validar_dataset_cargado
    /\ Accion(<<"Análisis de Ventas">>)
    /\ RegistrarEnBD(dsets[app.dataset].nombre, "Análisis de Ventas",
           {<<"ventas_totales", ventas_totales(heap, dsets[app.dataset])>>})
    /\ UNCHANGED <<heap, dsets, app, astate>>

\* titulo of _generar_reportes
TituloReporte(tipo) ==
    CASE tipo = "1" -> "Reporte Estadístico"
      [] tipo = "2" -> "Reporte de Ventas"
      [] tipo = "3" -> "Reporte Personalizado"

\* formato_str of _generar_reportes
FormatoStr(formato) ==
    CASE formato = "1" -> "consola"
      [] formato = "2" -> "txt"
      [] formato = "3" -> "json"
      [] formato = "4" -> "xml"
      [] OTHER         -> "desconocido"

\* _generar_reportes with a report type 1..3; escritura_archivo is the
\* outcome of writing the report file (an error there ends the program)
GenerarReporte ==
    /\ validar_dataset_cargado
    /\ \E tipo \in {"1", "3"}, formato \in {"1", "3", "", "9"},
          escritura_archivo \in ResultadosIO :
          IF formato \in {"2", "3", "4"} /\ escritura_archivo = "falla"
          THEN Aborta
          ELSE /\ escritura_archivo = "ok"
               /\ Accion(IF formato \in {"1", "2", "3", "4"}
                            THEN <<"Generar Reporte">> ELSE <<>>)
               /\ IF formato # ""
                     THEN RegistrarEnBD(dsets[app.dataset].nombre, "Generar Reporte",
                              {<<"tipo_reporte", TituloReporte(tipo)>>,
                               <<"formato", FormatoStr(formato)>>})
                     ELSE UNCHANGED jvars
               /\ UNCHANGED <<heap, dsets, app, astate>>

\* _exportar_datos
ExportarDatos ==
    /\ validar_dataset_cargado
    /\ \E escritura_archivo \in ResultadosIO :
          IF escritura_archivo = "falla"
          THEN Aborta
          ELSE /\ Accion(<<"Exportar Datos">>)
               /\ RegistrarEnBD(dsets[app.dataset].nombre, "Exportar Datos",
                      {<<"formato", "JSON">>, <<"archivo", "dataset_exportado">>,
                       <<"registros", cantidad_registros(dsets[app.dataset])>>})
               /\ UNCHANGED <<heap, dsets, app, astate>>

\* _restaurar_dataset_original, confirmed with 's'
RestaurarDataset ==
    /\ app.dataset_original # 0
    /\ \E existe \in BOOLEAN, lectura \in ResultadosIO :
          IF existe /\ lectura = "ok"
          THEN LET c == cargar(heap, dsets[app.dataset_original].nombre, FilasVentas)
               IN  /\ Accion(<<"Restaurar Dataset">>)
                   /\ heap' = c.heap
                   /\ dsets' = Append(dsets, c.dataset)
                   /\ app' = [app EXCEPT !.dataset = Len(dsets) + 1,
                                         !.limpiador = Len(dsets) + 1,
                                         !.transformador = Len(dsets) + 1]
                   /\ UNCHANGED <<astate, jvars>>
          ELSE /\ ~(existe /\ lectura = "ok")
               /\ (~existe => lectura = "falla")
               /\ Accion(<<>>)
               /\ UNCHANGED <<heap, dsets, app, astate, jvars>>

\* _ver_historial_operaciones, options 1 to 3
VerHistorial ==
    /\ Accion(<<>>)
    /\ ultima' \in
         { Llamada("todas", 0, None, obtener_todas_operaciones(operaciones),
                   FALSE, EstadisticasNulas, "ninguna", <<>>),
           Llamada("ultimas_n", 10, None, obtener_ultimas_n_operaciones(operaciones, 10),
                   FALSE, EstadisticasNulas, "ninguna", <<>>),
           Llamada("estadisticas", 0, None, <<>>, FALSE,
                   obtener_estadisticas(operaciones), "ninguna", <<>>) }
    /\ UNCHANGED <<store, jstate, operaciones, clock, cargadas, registradas,
                   limpiado, huboFallo>>
    /\ UNCHANGED <<heap, dsets, app, astate>>

\* _ver_historial_operaciones, option 5, confirmed with 's': the history of
\* what was carried out starts again with the journal
LimpiarHistorialApp ==
    /\ astate = "ejecutando"
    /\ pasos < MaxAcciones
    /\ pasos' = pasos + 1
    /\ realizadas' = <<>>
    /\ \E e \in Escrituras : limpiar_historial(e)
    /\ UNCHANGED <<heap, dsets, app, astate, dultima, llamadas>>

\* _salir
Salir ==
    /\ Accion(<<>>)
    /\ astate' = "terminada"
    /\ UNCHANGED <<heap, dsets, app, jvars>>

\* AplicacionProcesadorDatos.__init__ has run: no dataset, and the journal
\* loaded from a store that is absent or left by an earlier run
InitApp ==
    /\ store \in {StoreAusente, StoreLista(<<OpGuardada>>)}
    /\ jstate = "abierto"
    /\ operaciones = cargar_operaciones(store).ops
    /\ cargadas = operaciones
    /\ registradas = <<>>
    /\ limpiado = FALSE
    /\ huboFallo = FALSE
    /\ clock = 0
    /\ ultima = SinLlamada
    /\ DIdle
    /\ app = AppInicial
    /\ astate = "ejecutando"
    /\ realizadas = <<>>
    /\ pasos = 0

NextApp ==
    \/ CargarDataset
    \/ VerResumen
    \/ LimpiezaCompleta
    \/ EliminarDuplicados
    \/ EliminarVacios
    \/ LimpiarNulos
    \/ ReporteCalidad
    \/ AppFiltrarPorCampo
    \/ AppFiltrarPorRango
    \/ AppOrdenar
    \/ AppAgrupar
    \/ AppPrimerosN
    \/ AnalisisEstadistico
    \/ AnalisisVentas
    \/ GenerarReporte
    \/ ExportarDatos
    \/ RestaurarDataset
    \/ VerHistorial
    \/ LimpiarHistorialApp
    \/ Salir

\* the menu application
SpecApp == InitApp /\ [][NextApp]_vars

(***************************************************************************)
(* Calls of the Limpiador on one Dataset                                   *)
(***************************************************************************)
\* a call with its arguments, the call made before it, the record list and
\* the records as they were before it, what it returned and what it raised
LlamadaT(op, args, previa, antes, hantes, ret, raised) ==
    [ op |-> op, args |-> args, previa |-> previa, antes |-> antes,
      hantes |-> hantes, ret |-> ret, raised |-> raised ]

SinLlamadaT == LlamadaT("ninguna", <<>>, "ninguna", <<>>, <<>>, 0, None)

\* Registro({}): a record without fields
RegistroSinCampos == [c \in {} |-> None]

\* the rows a Dataset handed to a Limpiador may hold
FilasLimpiador ==
    { [region |-> "A",  total |-> "10"],
      [region |-> "A",  total |-> "NULL"],
      [region |-> None, total |-> ""],
      [region |-> "NULL", total |-> "NULL"],
      RegistroSinCampos }

\* Limpiador(dataset) on a Dataset of up to MaxFilas rows
InitLimpiador ==
    /\ JIdle
    /\ AIdle
    /\ \E n \in 0..MaxFilas :
          /\ heap \in [1..n -> FilasLimpiador]
          /\ dsets = <<agregar_registros(Dataset("ventas"), [i \in 1..n |-> i])>>
    /\ dultima = SinLlamadaT
    /\ llamadas = 0

\* one more call on the Dataset of the Limpiador
LlamarLimpiador(op, args, d, h, ret) ==
    /\ llamadas < MaxLlamadas
    /\ llamadas' = llamadas + 1
    /\ dsets' = <<d>>
    /\ heap' = h
    /\ dultima' = LlamadaT(op, args, dultima.op, dsets[1].registros, heap, ret, None)
    /\ UNCHANGED <<jvars, avars>>

\* Limpiador.eliminar_duplicados()
LlamarEliminarDuplicados ==
    LET r == eliminar_duplicados(heap, dsets[1])
    IN  LlamarLimpiador("eliminar_duplicados", <<>>, r.dataset, heap, r.cuenta)

\* Limpiador.eliminar_registros_vacios()
LlamarEliminarVacios ==
    LET r == eliminar_registros_vacios(heap, dsets[1])
    IN  LlamarLimpiador("eliminar_registros_vacios", <<>>, r.dataset, heap, r.cuenta)

\* Limpiador.limpiar_completo()
LlamarLimpiarCompleto ==
    LET r == limpiar_completo(heap, dsets[1])
    IN  LlamarLimpiador("limpiar_completo", <<>>, r.dataset, heap,
                        [ duplicados_eliminados |-> r.duplicados_eliminados,
                          vacios_eliminados |-> r.vacios_eliminados,
                          registros_finales |-> r.registros_finales ])

\* the campos arguments of limpiar_valores_nulos
ArgsCamposLimpiador ==
    {CamposNone, CamposLista(<<>>), CamposLista(<<"total">>),
     CamposLista(<<"region", "extra">>), CamposLista(<<"total", "total">>)}

\* Limpiador.limpiar_valores_nulos(campos, valor_reemplazo)
LlamarLimpiarNulos ==
    \E campos \in ArgsCamposLimpiador, valor_reemplazo \in {"0"} :
        LET e == limpiar_valores_nulos(Efecto(heap, {}, 0), obtener_registros(dsets[1]),
                                       campos, valor_reemplazo)
        IN  LlamarLimpiador("limpiar_valores_nulos", <<campos, valor_reemplazo>>,
                            dsets[1], e.heap, e.cuenta)

NextLimpiador ==
    \/ LlamarEliminarDuplicados
    \/ LlamarEliminarVacios
    \/ LlamarLimpiarCompleto
    \/ LlamarLimpiarNulos

\* a Limpiador and the calls made on it
SpecLimpiador == InitLimpiador /\ [][NextLimpiador]_vars

(***************************************************************************)
(* Calls of the Transformador and of the Dataset it holds                  *)
(***************************************************************************)
RECURSIVE SumaGrupoHastaNoNumerico(_, _, _)
SumaGrupoHastaNoNumerico(h, regs, campo_suma) ==
    IF regs = <<>> THEN 0
    ELSE LET valor_campo == obtener_campo(h[Head(regs)], campo_suma)
         IN  IF valor_campo # None /\ ~float_ok(valor_campo) THEN 0
             ELSE (IF valor_campo # None THEN float(valor_campo) ELSE 0)
                     + SumaGrupoHastaNoNumerico(h, Tail(regs), campo_suma)

\* the inner loop of calcular_totales_por_grupo: total of one group
RECURSIVE SumaGrupo(_, _, _)
SumaGrupo(h, regs, campo_suma) ==
    IF regs = <<>> THEN 0
    ELSE LET valor_campo == obtener_campo(h[Head(regs)], campo_suma)
         IN  (IF valor_campo # None /\ float_ok(valor_campo)
                 THEN float(valor_campo) ELSE 0)
                + SumaGrupo(h, Tail(regs), campo_suma)

\* the outer loop of calcular_totales_por_grupo over grupos.items()
RECURSIVE TotalesLoop(_, _, _)
TotalesLoop(h, grupos, campo_suma) ==
    IF grupos = <<>> THEN <<>>
    ELSE <<[valor |-> Head(grupos).valor,
            total |-> round(SumaGrupo(h, obtener_registros(Head(grupos).dataset),
                                      campo_suma))]>>
           \o TotalesLoop(h, Tail(grupos), campo_suma)

\* Transformador.calcular_totales_por_grupo, the groups visited in the order
\* valores
calcular_totales_por_grupo(h, d, campo_agrupacion, campo_suma, valores) ==
    TotalesLoop(h, agrupar_por_campo(h, d, campo_agrupacion, valores), campo_suma)

\* a dict as the set of its items
Items(pares, clave, valor) == {<<pares[i][clave], pares[i][valor]>> : i \in 1..Len(pares)}

\* what a call gives back: a value, or the exception it raised
Devuelve(valor) == [valor |-> valor, raised |-> None]
Lanza(excepcion) == [valor |-> 0, raised |-> excepcion]

\* Dataset.obtener_registro: self._registros[indice], a negative indice
\* counting from the end of the list
obtener_registro(d, indice) ==
    LET n == Len(d.registros)
    IN  IF 0 <= indice /\ indice < n THEN Devuelve(d.registros[indice + 1])
        ELSE IF indice < 0 /\ 0 - n <= indice THEN Devuelve(d.registros[n + indice + 1])
        ELSE Lanza("IndexError")

\* the rows of the Dataset a Transformador works on
FilasTransformador ==
    { [region |-> "B",  total |-> "15"],
      [region |-> "A",  total |-> "0.004"],
      [region |-> "A",  total |-> "x"],
      [region |-> "B",  total |-> None],
      [region |-> None, total |-> "25"] }

\* Transformador(dataset) on a Dataset of up to MaxFilas rows
InitTransformador ==
    /\ JIdle
    /\ AIdle
    /\ \E n \in 0..MaxFilas :
          /\ heap \in [1..n -> FilasTransformador]
          /\ dsets = <<agregar_registros(Dataset("ventas"), [i \in 1..n |-> i])>>
    /\ dultima = SinLlamadaT
    /\ llamadas = 0

\* one more call; no operation of the Transformador writes a record
LlamarTransformador(op, args, d, r) ==
    /\ llamadas < MaxLlamadasT
    /\ llamadas' = llamadas + 1
    /\ dsets' = <<d>>
    /\ dultima' = LlamadaT(op, args, dultima.op, dsets[1].registros, heap, r.valor, r.raised)
    /\ UNCHANGED heap
    /\ UNCHANGED <<jvars, avars>>

CamposTransformador == {"region", "total"}

\* Transformador.calcular_totales_por_grupo(campo_agrupacion, campo_suma)
LlamarTotalesPorGrupo ==
    \E a \in {<<"region", "total">>} :
        \E orden \in Permutaciones(valores_unicos(heap, dsets[1], a[1])) :
            LlamarTransformador("calcular_totales_por_grupo", a, dsets[1],
                Devuelve(Items(calcular_totales_por_grupo(heap, dsets[1], a[1], a[2], orden),
                               "valor", "total")))

\* Transformador.agrupar_por_campo(nombre_campo): the result maps each value
\* to the record list of its Dataset
LlamarAgruparPorCampo ==
    \E campo \in CamposTransformador :
        \E orden \in Permutaciones(valores_unicos(heap, dsets[1], campo)) :
            LET grupos == agrupar_por_campo(heap, dsets[1], campo, orden)
            IN  LlamarTransformador("agrupar_por_campo", <<campo>>, dsets[1],
                    Devuelve({<<grupos[i].valor, grupos[i].dataset.registros>> :
                                 i \in 1..Len(grupos)}))

\* Transformador.ordenar_por_campo(nombre_campo, descendente)
LlamarOrdenarPorCampo ==
    \E campo \in CamposTransformador, descendente \in BOOLEAN :
        LlamarTransformador("ordenar_por_campo", <<campo, descendente>>,
                            ordenar(heap, dsets[1], campo, descendente), Devuelve(None))

\* Dataset.obtener_registro(indice)
LlamarObtenerRegistro ==
    \E indice \in {0 - Len(dsets[1].registros) - 1, 0 - Len(dsets[1].registros), 0 - 1,
                    0, Len(dsets[1].registros) - 1, Len(dsets[1].registros)} :
        LlamarTransformador("obtener_registro", <<indice>>, dsets[1],
                            obtener_registro(dsets[1], indice))

RangosTransformador == {<<"total", "10", "20">>, <<"total", "0.004", "15">>, <<"region", "0", "25">>}

\* Transformador.filtrar_por_rango_numerico(nombre_campo, minimo, maximo)
LlamarFiltrarPorRango ==
    \E r \in RangosTransformador :
        LlamarTransformador("filtrar_por_rango_numerico", <<r[1], float(r[2]), float(r[3])>>,
            dsets[1],
            Devuelve(filtrar_por_rango_numerico(heap, dsets[1], r[1],
                                                float(r[2]), float(r[3])).registros))

\* Transformador.obtener_primeros_n(n), n any integer the application reads
LlamarPrimerosN ==
    \E n \in {0 - 1, 0, 1, Len(dsets[1].registros) + 1} :
        LlamarTransformador("obtener_primeros_n", <<n>>, dsets[1],
                            Devuelve(obtener_primeros_n(dsets[1], n).registros))

NextTransformador ==
    \/ LlamarPrimerosN
    \/ LlamarTotalesPorGrupo
    \/ LlamarAgruparPorCampo
    \/ LlamarOrdenarPorCampo
    \/ LlamarObtenerRegistro
    \/ LlamarFiltrarPorRango

\* a Transformador and the calls made on it
SpecTransformador == InitTransformador /\ [][NextTransformador]_vars

(***************************************************************************)
(* The analyzers (analizadores/analizador_ventas.py and                    *)
(* analizadores/analizador_estadistico.py)                                 *)
(***************************************************************************)
\* a dict with text keys and number values: its items in insertion order
DictSinItems == <<>>
DictClaves(dict) == {dict[i].clave : i \in 1..Len(dict)}

\* agrupacion[k] on a defaultdict(float): a missing key is inserted with 0.0
DictTocar(dict, k) ==
    IF k \in DictClaves(dict) THEN dict ELSE Append(dict, [clave |-> k, total |-> 0])

\* agrupacion[k] += x
DictSumar(dict, k, x) ==
    LET d == DictTocar(dict, k)
    IN  [i \in 1..Len(d) |-> IF d[i].clave = k THEN [d[i] EXCEPT !.total = @ + x] ELSE d[i]]

\* `if valor:` on a text or None
Truthy(valor) == valor # None /\ valor # ""

\* the loop of _analizar_por_campo: the subscript of `agrupacion[str(clave)]
\* += float(valor)` is read, and so inserted, before float(valor) can raise
RECURSIVE AnalizarPorCampoLoop(_, _, _, _, _)
AnalizarPorCampoLoop(h, regs, campo_agrupacion, campo_suma, agrupacion) ==
    IF regs = <<>> THEN agrupacion
    ELSE LET clave == obtener_campo(h[Head(regs)], campo_agrupacion)
             valor == obtener_campo(h[Head(regs)], campo_suma)
             sig == IF Truthy(clave) /\ Truthy(valor)
                       THEN IF float_ok(valor)
                               THEN DictSumar(agrupacion, clave, float(valor))
                               ELSE DictTocar(agrupacion, clave)
                       ELSE agrupacion
         IN  AnalizarPorCampoLoop(h, Tail(regs), campo_agrupacion, campo_suma, sig)

\* AnalizadorVentas._analizar_por_campo
analizar_por_campo(h, d, campo_agrupacion, campo_suma) ==
    LET agrupacion == AnalizarPorCampoLoop(h, obtener_registros(d), campo_agrupacion,
                                           campo_suma, DictSinItems)
    IN  [i \in 1..Len(agrupacion) |-> [agrupacion[i] EXCEPT !.total = round(@)]]

\* sorted(items, key=lambda x: x[1], reverse=True): stable, an item goes
\* behind every item that does not have to follow it
RECURSIVE InsertarPorTotal(_, _)
InsertarPorTotal(ordenados, item) ==
    IF ordenados = <<>> THEN <<item>>
    ELSE IF item.total > Head(ordenados).total THEN <<item>> \o ordenados
         ELSE <<Head(ordenados)>> \o InsertarPorTotal(Tail(ordenados), item)

RECURSIVE OrdenarPorTotal(_, _)
OrdenarPorTotal(pendientes, ordenados) ==
    IF pendientes = <<>> THEN ordenados
    ELSE OrdenarPorTotal(Tail(pendientes), InsertarPorTotal(ordenados, Head(pendientes)))

obtener_top_n_sin_ordenar(h, d, campo_agrupacion, campo_suma, n) ==
    PySliceHasta(analizar_por_campo(h, d, campo_agrupacion, campo_suma), n)

\* AnalizadorVentas._obtener_top_n
obtener_top_n(h, d, campo_agrupacion, campo_suma, n) ==
    PySliceHasta(OrdenarPorTotal(analizar_por_campo(h, d, campo_agrupacion, campo_suma),
                                 <<>>), n)

\* AnalizadorVentas.analizar
analizar_ventas(h, d) ==
    IF esta_vacio(d)
    THEN [ total_registros |-> cantidad_registros(d), ventas_totales |-> 0,
           por_region |-> DictSinItems, por_producto |-> DictSinItems,
           por_categoria |-> DictSinItems, por_vendedor |-> DictSinItems,
           top_productos |-> <<>>, top_vendedores |-> <<>> ]
    ELSE [ total_registros |-> cantidad_registros(d),
           ventas_totales  |-> calcular_ventas_totales(h, obtener_registros(d)),
           por_region      |-> analizar_por_campo(h, d, "region", "total"),
           por_producto    |-> analizar_por_campo(h, d, "producto", "total"),
           por_categoria   |-> analizar_por_campo(h, d, "categoria", "total"),
           por_vendedor    |-> analizar_por_campo(h, d, "vendedor", "total"),
           top_productos   |-> obtener_top_n(h, d, "producto", "total", 5),
           top_vendedores  |-> obtener_top_n(h, d, "vendedor", "total", 5) ]

\* the floats _analizar_campo collects from the values of a field
RECURSIVE ValoresNumericos(_)
ValoresNumericos(valores) ==
    IF valores = <<>> THEN <<>>
    ELSE (IF float_ok(Head(valores)) THEN <<float(Head(valores))>> ELSE <<>>)
            \o ValoresNumericos(Tail(valores))

\* how often x occurs in valores
Frecuencia(valores, x) == Cardinality({i \in 1..Len(valores) : valores[i] = x})

\* the values of highest frequency
Modas(valores) ==
    {x \in Elementos(valores) :
        \A y \in Elementos(valores) : Frecuencia(valores, y) <= Frecuencia(valores, x)}

\* statistics.mode of a non-empty list. Python 3.8 and later return the
\* first of the most frequent values; Python 3.7 and earlier raise
\* StatisticsError when there is more than one
VersionesPython == {"3.8+", "3.7-"}
statistics_mode(valores, version) ==
    IF version = "3.7-" /\ Cardinality(Modas(valores)) > 1
    THEN Lanza("StatisticsError")
    ELSE Devuelve(valores[CHOOSE i \in 1..Len(valores) :
                             /\ valores[i] \in Modas(valores)
                             /\ \A j \in 1..(i - 1) : valores[j] \notin Modas(valores)])

\* min and max of a non-empty list of numbers
Minimo(valores) == CHOOSE x \in Elementos(valores) : \A y \in Elementos(valores) : x <= y
Maximo(valores) == CHOOSE x \in Elementos(valores) : \A y \in Elementos(valores) : y <= x

RECURSIVE Suma(_)
Suma(valores) == IF valores = <<>> THEN 0 ELSE Head(valores) + Suma(Tail(valores))

\* estadisticas['moda']: None, or a number
ModaNula == <<>>
ModaDe(x) == <<x>>

\* AnalizadorEstadistico._estadisticas_numericas; of its entries the count,
\* the sum, the extremes and the mode are kept
estadisticas_numericas(valores, version) ==
    LET moda == statistics_mode(valores, version)
    IN  [ tipo |-> "numerico",
          total_valores |-> Len(valores),
          suma |-> round(Suma(valores)),
          minimo |-> round(Minimo(valores)),
          maximo |-> round(Maximo(valores)),
          moda |-> IF moda.raised = "StatisticsError" THEN ModaNula
                   ELSE ModaDe(round(moda.valor)) ]

\* AnalizadorEstadistico._estadisticas_categoricas; of its entries the
\* counts are kept
estadisticas_categoricas(valores) ==
    [ tipo |-> "categorico",
      total_valores |-> Len(valores),
      valores_unicos |-> Cardinality(Elementos(valores)) ]

\* the None _analizar_campo returns for a field without values
SinEstadisticas == [tipo |-> None]

\* AnalizadorEstadistico._analizar_campo
analizar_campo(h, d, nombre_campo, version) ==
    LET valores == obtener_valores_campo(h, d.registros, nombre_campo)
        valores_numericos == ValoresNumericos(valores)
    IN  IF valores = <<>> THEN SinEstadisticas
        ELSE IF Len(valores_numericos) >= 2
             THEN estadisticas_numericas(valores_numericos, version)
             ELSE estadisticas_categoricas(valores)

\* the rows row i of a sales Dataset may be: a product of its own or the
\* first product, with a total that is a number or absent
FilasAnalizador(i) ==
    { [producto |-> "p" \o ToString(i), total |-> "5"],
      [producto |-> "p" \o ToString(i), total |-> "10"],
      [producto |-> "p1",               total |-> "10"],
      [producto |-> "p" \o ToString(i), total |-> None] }

\* the tables of n such rows
RECURSIVE TablasAnalizador(_)
TablasAnalizador(n) ==
    IF n = 0 THEN {<<>>}
    ELSE {Append(t, f) : t \in TablasAnalizador(n - 1), f \in FilasAnalizador(n)}

\* an analyzer on a Dataset of up to MaxVentas rows
InitAnalizador ==
    /\ JIdle
    /\ AIdle
    /\ \E n \in 0..MaxVentas :
          /\ heap \in TablasAnalizador(n)
          /\ dsets = <<agregar_registros(Dataset("ventas"), [i \in 1..n |-> i])>>
    /\ dultima = SinLlamadaT
    /\ llamadas = 0

\* one more call on an analyzer; the analyzers write neither the Dataset nor
\* its records
LlamarAnalizador(op, args, ret) ==
    /\ llamadas < MaxLlamadasT
    /\ llamadas' = llamadas + 1
    /\ dultima' = LlamadaT(op, args, dultima.op, dsets[1].registros, heap, ret, None)
    /\ UNCHANGED <<heap, dsets>>
    /\ UNCHANGED <<jvars, avars>>

\* AnalizadorVentas(dataset).analizar()
LlamarAnalizarVentas ==
    LlamarAnalizador("analizar_ventas", <<>>, analizar_ventas(heap, dsets[1]))

\* AnalizadorEstadistico(dataset)._analizar_campo(nombre_campo), as analizar
\* calls it for every field
LlamarAnalizarCampo ==
    \E nombre_campo \in {"producto", "total"}, version \in VersionesPython :
        LlamarAnalizador("analizar_campo", <<nombre_campo>>,
                         analizar_campo(heap, dsets[1], nombre_campo, version))

NextAnalizador ==
    \/ LlamarAnalizarVentas
    \/ LlamarAnalizarCampo

\* the analyzers and the calls made on them
SpecAnalizador == InitAnalizador /\ [][NextAnalizador]_vars

JInit ==
    /\ store \in StoresIniciales
    /\ jstate = "sin_construir"
    /\ operaciones = <<>>
    /\ clock = 0
    /\ ultima = SinLlamada
    /\ cargadas = <<>>
    /\ registradas = <<>>
    /\ limpiado = FALSE
    /\ huboFallo = FALSE

Init == JInit /\ DIdle /\ AIdle

Next ==
    \/ Construir
    \/ Registrar
    \/ Limpiar
    \/ ConsultarTodas
    \/ ConsultarPorDataset
    \/ ConsultarPorTipo
    \/ ConsultarUltimasN
    \/ ConsultarEstadisticas

\* the journal alone
Spec == Init /\ [][Next]_vars

(***************************************************************************)
(* Properties of the journal                                               *)
(***************************************************************************)
Ultimo(s) == s[Len(s)]

\* C2: on a journal that was never cleared, all() is the entries loaded at
\* construction followed by one entry per record() call in call order, and
\* no step of the journal changes or moves an entry already in the list.
C2_SoloAgrega ==
    /\ []((jstate = "abierto" /\ ~limpiado) =>
            /\ obtener_todas_operaciones(operaciones) = cargadas \o registradas
            /\ (ultima.op = "todas" => ultima.lista = cargadas \o registradas))
    /\ [][(jstate = "abierto" /\ ~limpiado') =>
            \A i \in 1..Len(operaciones) :
                Len(operaciones') >= i /\ operaciones'[i] = operaciones[i]]_vars

C2_Testigo ==
    /\ jstate = "abierto" /\ ~limpiado
    /\ Len(cargadas) = 1 /\ Len(registradas) = 1
    /\ cargadas[1] # registradas[1]
    /\ ultima.op = "todas" /\ Len(ultima.lista) = 2

\* C3: when the rewrite inside record() succeeds the store holds the whole
\* in-memory list, entries whose own write failed included, and a journal
\* built on that store loads the same entries in the same order.
C3_StoreIgualAMemoria ==
    (ultima.op = "registrar" /\ ultima.escritura = "ok") =>
        /\ store.kind = "lista"
        /\ Len(store.blob) = Len(operaciones)
        /\ cargar_operaciones(store) =
              [raised |-> None, ops |-> obtener_todas_operaciones(operaciones)]

C3_Testigo ==
    /\ ultima.op = "registrar" /\ ultima.escritura = "ok"
    /\ ~limpiado /\ huboFallo
    /\ Len(registradas) = 2

\* C4: when the rewrite inside record() fails, record() still returns
\* normally, the new entry is the last element of the list and the list is
\* the previous list plus that one entry.
C4_FalloNoFatal ==
    (ultima.op = "registrar" /\ ultima.escritura # "ok") =>
        /\ ultima.raised = None
        /\ Len(operaciones) = Len(ultima.antes) + 1
        /\ Ultimo(operaciones) = ultima.arg
        /\ SubSeq(operaciones, 1, Len(operaciones) - 1) = ultima.antes

C4_Testigo ==
    /\ ultima.op = "registrar" /\ ultima.escritura = "dump_falla"
    /\ Len(operaciones) = 2
    /\ store = StoreTruncado

\* C5: building a journal on a missing, unreadable or corrupt store always
\* completes and gives an empty journal.
C5_ConstruirNuncaFalla ==
    (ultima.op = "construir" /\ store.kind \in {"ausente", "ilegible", "corrupto"}) =>
        /\ jstate = "abierto"
        /\ ultima.raised = None
        /\ operaciones = <<>>


\* C6: lastN(n), n >= 0, is the last n entries when the journal holds at
\* least n and all entries otherwise, and never has more than n entries.
C6_UltimasN ==
    ultima.op = "ultimas_n" =>
        LET n == ultima.arg
            k == Min(n, Len(operaciones))
        IN  /\ ultima.lista = SubSeq(operaciones, Len(operaciones) - k + 1, Len(operaciones))
            /\ Len(ultima.lista) <= n

\* C7: clear() leaves the in-memory journal empty whether or not the
\* rewrite succeeds, and returns true exactly when the store was rewritten,
\* in which case the store holds the empty list.
C7_Limpiar ==
    ultima.op = "limpiar" =>
        /\ operaciones = <<>>
        /\ obtener_todas_operaciones(operaciones) = <<>>
        /\ ultima.raised = None
        /\ ultima.bool = (ultima.escritura = "ok")
        /\ (ultima.bool => store = StoreLista(<<>>))

C7_Testigo ==
    /\ ultima.op = "limpiar" /\ ~ultima.bool
    /\ ultima.antes # <<>>
    /\ store.kind = "lista" /\ store.blob # <<>>

RECURSIVE SumaValores(_, _)
SumaValores(f, ks) ==
    IF ks = {} THEN 0
    ELSE LET k == CHOOSE x \in ks : TRUE
         IN  f[k] + SumaValores(f, ks \ {k})

\* C8: stats() reports the number of entries, per-label counts that sum to
\* it with one key per distinct label, the set of dataset names and the
\* first and last entry's timestamps; zero, empty and null on an empty
\* journal.
C8_Estadisticas ==
    ultima.op = "estadisticas" =>
        LET s == ultima.stats
            n == Len(operaciones)
        IN  /\ ultima.raised = None
            /\ s.total_operaciones = n
            /\ DOMAIN s.tipos_operaciones = {operaciones[i].operacion : i \in 1..n}
            /\ SumaValores(s.tipos_operaciones, DOMAIN s.tipos_operaciones) = n
            /\ s.datasets_usados = {operaciones[i].dataset : i \in 1..n}
            /\ (n > 0 => /\ s.primera_operacion = operaciones[1].timestamp
                          /\ s.ultima_operacion = operaciones[n].timestamp)
            /\ (n = 0 => /\ s.primera_operacion = None
                          /\ s.ultima_operacion = None)

C8_Testigo ==
    /\ ultima.op = "estadisticas"
    /\ Len(operaciones) = 2
    /\ operaciones[1].operacion # operaciones[2].operacion
    /\ operaciones[1].timestamp # operaciones[2].timestamp
    /\ ultima.stats.total_operaciones = 2

(***************************************************************************)
(* Properties of Datasets and their views                                  *)
(***************************************************************************)
OpsFiltrar == {"filtrar", "filtrar_por_campo", "filtrar_por_rango_numerico"}
OpsDerivar == OpsFiltrar \cup {"agrupar_por_campo", "obtener_primeros_n"}
OpsMutar == {"limpiar_valores_nulos", "normalizar_texto", "agregar_campo_calculado"}

IdsDe(k) == Elementos(dsets[k].registros)

\* C9: D.filter(P) is a new Dataset holding exactly the records of D that
\* satisfy P, in the relative order they have in D (its count is the number
\* of records of D satisfying P), and D's record sequence is unchanged.
C9_Filtrar ==
    dultima.op \in OpsFiltrar =>
        \A r \in dultima.res :
            LET fuente == dsets[dultima.ds].registros
                resultado == dsets[r].registros
                P == dultima.cumplen
            IN  /\ r # dultima.ds
                /\ \A i \in 1..Len(resultado) : resultado[i] \in P
                /\ Len(resultado) = Cardinality({i \in 1..Len(fuente) : fuente[i] \in P})
                /\ \E f \in [1..Len(resultado) -> 1..Len(fuente)] :
                      /\ \A i \in 1..Len(resultado) : resultado[i] = fuente[f[i]]
                      /\ \A i, j \in 1..Len(resultado) : i < j => f[i] < f[j]
                /\ fuente = dultima.antes

C9_Testigo ==
    /\ dultima.op = "filtrar"
    /\ Len(dsets[dultima.ds].registros) = 2
    /\ dultima.cumplen = {1, 2}
    /\ \E r \in dultima.res : dsets[r].registros = <<1, 2>>

\* C10: a Dataset produced by filter, filterByField, filterByNumericRange,
\* groupByField or headN holds Record instances of its source, and after a
\* field is written through one view (fillNulls, normalizeText,
\* addComputedField) every view holding that record reads the new value.
C10_VistasComparten ==
    /\ dultima.op \in OpsDerivar =>
          \A r \in dultima.res : IdsDe(r) \subseteq IdsDe(dultima.ds)
    /\ dultima.op \in OpsMutar =>
          \A w \in dultima.escritos : \A k \in IdsDataset :
              \A i \in 1..Len(dsets[k].registros) :
                  dsets[k].registros[i] = w[1] =>
                      obtener_campo(heap[dsets[k].registros[i]], w[2]) = w[3]

C10_Testigo ==
    /\ dultima.op \in OpsMutar
    /\ dultima.ds > 1
    /\ \E w \in dultima.escritos : \E i \in 1..Len(dsets[1].registros) :
          /\ dsets[1].registros[i] = w[1]
          /\ obtener_campo(heap[dsets[1].registros[i]], w[2]) = w[3]

(***************************************************************************)
(* The application and the journal                                         *)
(***************************************************************************)
\* C1: after any sequence of menu actions, every operation carried out on
\* the loaded dataset has its own entry in the operation journal, and the
\* entries are in the order in which the operations completed: the
\* operations carried out since the journal was last emptied map, one entry
\* each and in order, into the entries of the journal.
C1_TodaOperacionRegistrada ==
    astate # "sin_iniciar" =>
        \E f \in [1..Len(realizadas) -> 1..Len(operaciones)] :
            /\ \A i \in 1..Len(realizadas) :
                  operaciones[f[i]].operacion = realizadas[i]
            /\ \A i, j \in 1..Len(realizadas) : i < j => f[i] < f[j]

(***************************************************************************)
(* The Limpiador                                                           *)
(***************************************************************************)
\* the elements of s at the positions in P, in the order of s
RECURSIVE EnPosicionesDesde(_, _, _)
EnPosicionesDesde(s, P, i) ==
    IF i > Len(s) THEN <<>>
    ELSE (IF i \in P THEN <<s[i]>> ELSE <<>>) \o EnPosicionesDesde(s, P, i + 1)

EnPosiciones(s, P) == EnPosicionesDesde(s, P, 1)

\* the positions of s whose record equals no record at an earlier position
PosPrimeras(h, s) ==
    {i \in 1..Len(s) : \A j \in 1..(i - 1) : h[s[j]] # h[s[i]]}

\* a record with no field, or with nothing but null, empty text and "NULL"
RegistroVacio(datos) ==
    \A c \in DOMAIN datos : datos[c] = None \/ datos[c] = "" \/ datos[c] = "NULL"

\* the positions of s that hold a record with data
PosConDatos(h, s) == {i \in 1..Len(s) : ~RegistroVacio(h[s[i]])}

\* C11: removeDuplicates() keeps of every class of structurally equal
\* records exactly the first occurrence, in the order the kept records had,
\* and returns the number of records dropped (count before minus count
\* after); no record is changed.
C11_EliminarDuplicados ==
    dultima.op = "eliminar_duplicados" =>
        /\ dsets[1].registros = EnPosiciones(dultima.antes, PosPrimeras(dultima.hantes, dultima.antes))
        /\ dultima.ret = Len(dultima.antes) - Len(dsets[1].registros)
        /\ heap = dultima.hantes

\* a call that dropped a later occurrence and kept two records
C11_Testigo ==
    /\ dultima.op = "eliminar_duplicados"
    /\ dultima.ret >= 1
    /\ Len(dsets[1].registros) >= 2

\* C12: removeDuplicates() is idempotent: a second call made directly after
\* a first one returns 0 and leaves the record sequence as the first call
\* left it.
C12_DuplicadosIdempotente ==
    (dultima.op = "eliminar_duplicados" /\ dultima.previa = "eliminar_duplicados") =>
        /\ dultima.ret = 0
        /\ dsets[1].registros = dultima.antes

\* a second call in a row on a Dataset that still holds records
C12_Testigo ==
    /\ dultima.op = "eliminar_duplicados"
    /\ dultima.previa = "eliminar_duplicados"
    /\ Len(dsets[1].registros) >= 1

\* C13: removeEmptyRecords() drops exactly the records that have zero fields
\* or whose every value is null, empty text or "NULL", keeps the others in
\* their order and returns the number of records dropped.
C13_EliminarVacios ==
    dultima.op = "eliminar_registros_vacios" =>
        /\ dsets[1].registros = EnPosiciones(dultima.antes, PosConDatos(dultima.hantes, dultima.antes))
        /\ dultima.ret = Len(dultima.antes)
                           - Cardinality(PosConDatos(dultima.hantes, dultima.antes))
        /\ heap = dultima.hantes

\* a call that dropped a record without fields and one with only nulls, and
\* kept a record that holds "NULL" next to a value
C13_Testigo ==
    /\ dultima.op = "eliminar_registros_vacios"
    /\ \E i, j \in 1..Len(dultima.antes) :
          /\ DOMAIN dultima.hantes[dultima.antes[i]] = {}
          /\ DOMAIN dultima.hantes[dultima.antes[j]] # {}
          /\ RegistroVacio(dultima.hantes[dultima.antes[j]])
    /\ \E i \in 1..Len(dsets[1].registros) :
          obtener_campo(heap[dsets[1].registros[i]], "total") = "NULL"

Pedido(campos, c) == campos.esNone \/ c \in Elementos(campos.lista)

\* the values that differ before and after the last call
ValoresCambiados ==
    {p \in Elementos(dultima.antes) \X Elementos(OrdenCampos) :
        obtener_campo(heap[p[1]], p[2]) # obtener_campo(dultima.hantes[p[1]], p[2])}

\* C15: fillNulls(fields, replacement) sets to replacement every value of a
\* targeted field (every field when fields is unset) that is null, empty
\* text or "NULL", changes no value that is none of these, and returns the
\* number of values it set.
C15_LimpiarNulos ==
    dultima.op = "limpiar_valores_nulos" =>
        /\ \A id \in Elementos(dultima.antes) : \A c \in DOMAIN dultima.hantes[id] :
              LET valor == dultima.hantes[id][c]
                  nulo == valor = None \/ valor = "" \/ valor = "NULL"
              IN  /\ (nulo /\ Pedido(dultima.args[1], c)) => heap[id][c] = dultima.args[2]
                  /\ ~nulo => heap[id][c] = valor
        /\ dultima.ret = Cardinality(ValoresCambiados)
        /\ dsets[1].registros = dultima.antes

(***************************************************************************)
(* The Transformador and Dataset.get / Dataset.sort                        *)
(***************************************************************************)
\* the non-null values the records of s hold for campo
ValoresNoNulos(h, s, campo) ==
    {obtener_campo(h[s[i]], campo) : i \in 1..Len(s)} \ {None}

\* the positions of s whose record holds valor for campo
PosConValor(h, s, campo, valor) ==
    {i \in 1..Len(s) : obtener_campo(h[s[i]], campo) = valor}

\* the sum, in thousandths, of the numeric values of campo_suma over the
\* records of s whose campo_grupo is v
RECURSIVE SumaDe(_, _, _, _, _)
SumaDe(h, s, campo_grupo, v, campo_suma) ==
    IF s = <<>> THEN 0
    ELSE LET x == obtener_campo(h[Head(s)], campo_suma)
         IN  (IF obtener_campo(h[Head(s)], campo_grupo) = v /\ x \in TextosNumericos
                 THEN float(x) ELSE 0)
                + SumaDe(h, Tail(s), campo_grupo, v, campo_suma)

\* the keys of the returned map are the distinct non-null values, one each
ClavesDeTotales ==
    /\ {p[1] : p \in dultima.ret} = ValoresNoNulos(dultima.hantes, dultima.antes, dultima.args[1])
    /\ Cardinality(dultima.ret) = Cardinality({p[1] : p \in dultima.ret})
    /\ dultima.raised = None

\* C16 as stated: sumByGroup(f, s) has exactly one key per distinct non-null
\* value of f, and the value of each key v equals the sum of s over the
\* records whose f equals v, over numerically coercible values only; no error
\* is raised.
C16_TotalesSumaExacta ==
    dultima.op = "calcular_totales_por_grupo" =>
        /\ ClavesDeTotales
        /\ \A p \in dultima.ret :
              p[2] = SumaDe(dultima.hantes, dultima.antes, dultima.args[1], p[1],
                            dultima.args[2])

\* C16 amended: sumByGroup(f, s) has exactly one key per distinct non-null
\* value of f, and the value of each key v equals the sum of s over the
\* records whose f equals v, over numerically coercible values only, rounded
\* to 2 decimals; no error is raised.
C16_TotalesRedondeados ==
    dultima.op = "calcular_totales_por_grupo" =>
        /\ ClavesDeTotales
        /\ \A p \in dultima.ret :
              p[2] = round(SumaDe(dultima.hantes, dultima.antes, dultima.args[1], p[1],
                                  dultima.args[2]))

\* a call with two groups, one of them holding a value that is not a number
\* next to a number, the other an absent value
C16_Testigo ==
    /\ dultima.op = "calcular_totales_por_grupo"
    /\ Cardinality(dultima.ret) = 2
    /\ \E i, j \in 1..Len(dultima.antes) :
          LET a == dultima.hantes[dultima.antes[i]]
              b == dultima.hantes[dultima.antes[j]]
          IN  /\ a.region = b.region /\ a.region # None
              /\ a.total = "x" /\ b.total \in TextosNumericos
    /\ \E i \in 1..Len(dultima.antes) :
          LET a == dultima.hantes[dultima.antes[i]]
          IN  a.region # None /\ a.total = None

\* the sum of the lengths of the record lists of a set of groups
RECURSIVE SumaTamanos(_)
SumaTamanos(grupos) ==
    IF grupos = {} THEN 0
    ELSE LET g == CHOOSE g \in grupos : TRUE
         IN  Len(g[2]) + SumaTamanos(grupos \ {g})

\* C17: groupByField(field) returns one entry per distinct non-null value of
\* field; the groups partition the records with a non-null value (each such
\* record is in exactly the group keyed by its value, records with a null
\* value are in none), each group keeps source order, the group sizes sum to
\* the number of records with a non-null value, and the source Dataset is
\* not modified.
C17_AgruparPorCampo ==
    dultima.op = "agrupar_por_campo" =>
        LET campo == dultima.args[1]
            valorDe(i) == obtener_campo(dultima.hantes[dultima.antes[i]], campo)
            conValor == {i \in 1..Len(dultima.antes) : valorDe(i) # None}
        IN  /\ {g[1] : g \in dultima.ret} = ValoresNoNulos(dultima.hantes, dultima.antes, campo)
            /\ Cardinality(dultima.ret) = Cardinality({g[1] : g \in dultima.ret})
            /\ \A i \in 1..Len(dultima.antes) :
                  {g[1] : g \in {x \in dultima.ret : dultima.antes[i] \in Elementos(x[2])}}
                     = IF i \in conValor THEN {valorDe(i)} ELSE {}
            /\ \A g \in dultima.ret :
                  g[2] = EnPosiciones(dultima.antes,
                                      PosConValor(dultima.hantes, dultima.antes, campo, g[1]))
            /\ SumaTamanos(dultima.ret) = Cardinality(conValor)
            /\ dsets[1].registros = dultima.antes
            /\ heap = dultima.hantes
            /\ dultima.raised = None

\* a call that made two groups and left a record with a null value out
C17_Testigo ==
    /\ dultima.op = "agrupar_por_campo"
    /\ Cardinality(dultima.ret) = 2
    /\ Len(dultima.antes) = 3
    /\ SumaTamanos(dultima.ret) = 2

\* the position of a record in a record list
PosEn(s, id) == CHOOSE i \in 1..Len(s) : s[i] = id

\* the sort key of a record: the text of campo, the empty string if absent
ClaveTexto(datos, campo) ==
    IF obtener_campo(datos, campo) = None THEN "" ELSE obtener_campo(datos, campo)

\* C18: Dataset.sort(field, descending) permutes the records in place so
\* that they are ordered by the field's text value (an absent value ordering
\* as the empty string), ascending or descending as requested, and any two
\* records with equal sort keys keep the relative order they had before.
C18_Ordenar ==
    dultima.op = "ordenar_por_campo" =>
        LET campo == dultima.args[1]
            res == dsets[1].registros
            clave(i) == RangoTexto(ClaveTexto(heap[res[i]], campo))
        IN  /\ Len(res) = Len(dultima.antes)
            /\ Elementos(res) = Elementos(dultima.antes)
            /\ heap = dultima.hantes
            /\ \A i, j \in 1..Len(res) :
                  i < j =>
                     /\ IF dultima.args[2] THEN clave(i) >= clave(j) ELSE clave(i) <= clave(j)
                     /\ clave(i) = clave(j) =>
                           PosEn(dultima.antes, res[i]) < PosEn(dultima.antes, res[j])
            /\ dultima.raised = None

\* a descending sort that moved records, with two records of equal key and
\* a record whose value is absent
C18_Testigo ==
    /\ dultima.op = "ordenar_por_campo"
    /\ dultima.args[2]
    /\ dsets[1].registros # dultima.antes
    /\ \E i, j \in 1..Len(dultima.antes) :
          /\ i # j
          /\ heap[i] # heap[j]
          /\ ClaveTexto(heap[i], dultima.args[1]) = ClaveTexto(heap[j], dultima.args[1])
    /\ \E i \in 1..Len(dultima.antes) : obtener_campo(heap[i], dultima.args[1]) = None

\* C19: Dataset.get(index) returns the record at position index when
\* 0 <= index < count(), and fails with an out-of-range error for every other
\* integer index (every negative index included), leaving the Dataset
\* unchanged.
C19_ObtenerRegistro ==
    dultima.op = "obtener_registro" =>
        LET indice == dultima.args[1]
        IN  /\ IF 0 <= indice /\ indice < Len(dultima.antes)
                  THEN dultima.raised = None /\ dultima.ret = dultima.antes[indice + 1]
                  ELSE dultima.raised = "IndexError"
            /\ dsets[1].registros = dultima.antes
            /\ heap = dultima.hantes

\* C20: filterByNumericRange(field, min, max) keeps exactly the records
\* whose value for field coerces to a number x with min <= x <= max, in
\* source order; records whose value is absent or not coercible are excluded
\* and no error is raised.
C20_FiltrarPorRango ==
    dultima.op = "filtrar_por_rango_numerico" =>
        LET valorDe(i) == obtener_campo(dultima.hantes[dultima.antes[i]], dultima.args[1])
            dentro == {i \in 1..Len(dultima.antes) :
                          /\ valorDe(i) \in TextosNumericos
                          /\ dultima.args[2] <= float(valorDe(i))
                          /\ float(valorDe(i)) <= dultima.args[3]}
        IN  /\ dultima.ret = EnPosiciones(dultima.antes, dentro)
            /\ dultima.raised = None

\* a call that kept a value equal to the minimum and one equal to the
\* maximum and excluded a value that is not a number
C20_Testigo ==
    /\ dultima.op = "filtrar_por_rango_numerico"
    /\ dultima.args[1] = "total"
    /\ \E i, j, k \in 1..Len(dultima.antes) :
          /\ dultima.antes[i] \in Elementos(dultima.ret)
          /\ dultima.antes[j] \in Elementos(dultima.ret)
          /\ float(heap[dultima.antes[i]].total) = dultima.args[2]
          /\ float(heap[dultima.antes[j]].total) = dultima.args[3]
          /\ heap[dultima.antes[k]].total = "x"
          /\ dultima.antes[k] \notin Elementos(dultima.ret)

\* the scenario of the values 5, 15 and 25: one value below, one inside and
\* one above the range, only the one inside kept
C20_TestigoEscenario ==
    /\ dultima.op = "filtrar_por_rango_numerico"
    /\ dultima.args[1] = "total"
    /\ Len(dultima.ret) = 1
    /\ \E i, j \in 1..Len(dultima.antes) :
          /\ heap[dultima.antes[i]].total \in TextosNumericos
          /\ heap[dultima.antes[j]].total \in TextosNumericos
          /\ float(heap[dultima.antes[i]].total) < dultima.args[2]
          /\ float(heap[dultima.antes[j]].total) > dultima.args[3]

\* C30: after cleanAll() the Dataset holds no two structurally equal records
\* and no empty record, the surviving records are in the relative order they
\* had before the call, and a second cleanAll() directly afterwards reports
\* duplicatesRemoved = 0 and emptyRemoved = 0.
C30_LimpiarCompletoEstable ==
    dultima.op = "limpiar_completo" =>
        LET res == dsets[1].registros
        IN  /\ \A i, j \in 1..Len(res) : heap[res[i]] = heap[res[j]] => i = j
            /\ \A i \in 1..Len(res) :
                  DOMAIN heap[res[i]] # {} /\ ~RegistroVacio(heap[res[i]])
            /\ Elementos(res) \subseteq Elementos(dultima.antes)
            /\ \A i, j \in 1..Len(res) :
                  i < j => PosEn(dultima.antes, res[i]) < PosEn(dultima.antes, res[j])
            /\ dultima.previa = "limpiar_completo" =>
                  /\ dultima.ret.duplicados_eliminados = 0
                  /\ dultima.ret.vacios_eliminados = 0
                  /\ res = dultima.antes

\* a second cleanAll() in a row on a Dataset that still holds two records
C30_Testigo ==
    /\ dultima.op = "limpiar_completo"
    /\ dultima.previa = "limpiar_completo"
    /\ Len(dsets[1].registros) >= 2

\* a first cleanAll() that dropped a duplicate and an empty record and kept
\* two records
C30_TestigoPrimera ==
    /\ dultima.op = "limpiar_completo"
    /\ dultima.previa = "ninguna"
    /\ dultima.ret.duplicados_eliminados + dultima.ret.vacios_eliminados >= 1
    /\ Len(dsets[1].registros) >= 2

\* C28: fillNulls with an explicit list of fields leaves every value of a
\* field that is not in the list unchanged in every record, for every list,
\* the empty list included: an empty list fills nothing and returns 0.
C28_ListaExplicita ==
    (dultima.op = "limpiar_valores_nulos" /\ ~dultima.args[1].esNone) =>
        /\ \A id \in Elementos(dultima.antes) : \A c \in DOMAIN dultima.hantes[id] :
              c \notin Elementos(dultima.args[1].lista) => heap[id][c] = dultima.hantes[id][c]
        /\ dultima.args[1].lista = <<>> => (dultima.ret = 0 /\ heap = dultima.hantes)

\* C23: headN(n) returns a new Dataset holding exactly the first
\* min(max(n, 0), count) records of the source in their original order, for
\* every integer n; the source Dataset is unchanged.
C23_PrimerosN ==
    dultima.op = "obtener_primeros_n" =>
        LET n == dultima.args[1]
            k == Min(IF n > 0 THEN n ELSE 0, Len(dultima.antes))
        IN  /\ dultima.ret = SubSeq(dultima.antes, 1, k)
            /\ dsets[1].registros = dultima.antes
            /\ heap = dultima.hantes

(***************************************************************************)
(* The journal: failed writes, and the lists the queries hand out          *)
(***************************************************************************)
\* C25: a failed store rewrite (during record() or clear()) leaves the
\* persistent store with the content it had before the call: a journal
\* constructed on the store afterwards loads what it would have loaded
\* before the call.
C25_FalloConservaStore ==
    [][ (ultima'.op \in {"registrar", "limpiar"} /\ ultima'.escritura # "ok")
           => cargar_operaciones(store') = cargar_operaciones(store) ]_vars

\* the list object a query returns is self.operaciones itself: only the
\* else branch of obtener_ultimas_n_operaciones returns it, the slice, the
\* copy and the comprehensions of the other queries are new lists
devuelve_la_propia(consulta, ops, n) ==
    consulta = "ultimas_n" /\ ~(Len(ops) >= n)

ConsultasConLista == {"todas", "por_dataset", "por_tipo", "ultimas_n"}

\* what the caller does to the list a query gave it
CambiosDeLista == {"clear", "reverse", "append"}
CambiarLista(lista, cambio) ==
    CASE cambio = "clear"   -> <<>>
      [] cambio = "reverse" -> [i \in 1..Len(lista) |-> lista[Len(lista) + 1 - i]]
      [] cambio = "append"  -> Append(lista, OpGuardada)

\* the caller changes the list the last query returned; the journal's list
\* changes with it when it is the same object
ModificarDevuelta ==
    /\ jstate = "abierto"
    /\ llamadas < MaxCambios
    /\ llamadas' = llamadas + 1
    /\ ultima.op \in ConsultasConLista
    /\ \E cambio \in CambiosDeLista :
          /\ cambio = "append" => Len(ultima.lista) < MaxOps
          /\ LET nueva == CambiarLista(ultima.lista, cambio)
                 propia == devuelve_la_propia(ultima.op, operaciones, ultima.arg)
             IN  /\ operaciones' = IF propia THEN nueva ELSE operaciones
                 /\ ultima' = Llamada("modificar_devuelta",
                                      <<ultima.op, ultima.arg, cambio>>, None, nueva,
                                      FALSE, EstadisticasNulas, "ninguna", operaciones)
    /\ UNCHANGED <<store, jstate, clock, cargadas, registradas, limpiado, huboFallo>>
    /\ UNCHANGED <<heap, dsets, dultima, avars>>

NextDevueltas ==
    \/ Next
    \/ ModificarDevuelta

\* the journal with callers that change the lists they are given
SpecDevueltas == Init /\ [][NextDevueltas]_vars

\* C26: no query returns the journal's own list: changing a list returned
\* by all, lastN, byDataset or byOperationType leaves the result of a later
\* all() unchanged.
C26_ConsultasNoComparten ==
    ultima.op = "modificar_devuelta" =>
        obtener_todas_operaciones(operaciones) = ultima.antes

(***************************************************************************)
(* The application                                                         *)
(***************************************************************************)
\* C27: after any sequence of menu actions, a load in which one of the two
\* file loads fails and a failed restore included, the cleaner and the
\* transformer are bound to the very Dataset object the application holds as
\* its current dataset, and both are set whenever a current dataset is set.
C27_ProcesadoresDelDataset ==
    app.dataset # 0 => (app.limpiador = app.dataset /\ app.transformador = app.dataset)

(***************************************************************************)
(* The analyzers                                                           *)
(***************************************************************************)
\* the elements of a finite set in some order
RECURSIVE SecuenciaDe(_)
SecuenciaDe(S) ==
    IF S = {} THEN <<>>
    ELSE LET x == CHOOSE x \in S : TRUE IN <<x>> \o SecuenciaDe(S \ {x})

\* the map Transformer.sumByGroup(g, total) gives on the Dataset as it was
\* before the last call
TotalesDelTransformador(g) ==
    LET d == [nombre |-> dsets[1].nombre, registros |-> dultima.antes]
    IN  Items(calcular_totales_por_grupo(dultima.hantes, d, g, "total",
                  SecuenciaDe(valores_unicos(dultima.hantes, d, g))),
              "valor", "total")

\* C21: for every Dataset and each grouping field g of region, producto,
\* categoria and vendedor, the grouped sums the Sales Analyzer's analyze()
\* reports for g are the same map (same keys, same sums) as
\* Transformer.sumByGroup(g, total) on the same Dataset.
C21_SumasComoTransformador ==
    dultima.op = "analizar_ventas" =>
        /\ Items(dultima.ret.por_region, "clave", "total") = TotalesDelTransformador("region")
        /\ Items(dultima.ret.por_producto, "clave", "total") = TotalesDelTransformador("producto")
        /\ Items(dultima.ret.por_categoria, "clave", "total") = TotalesDelTransformador("categoria")
        /\ Items(dultima.ret.por_vendedor, "clave", "total") = TotalesDelTransformador("vendedor")

\* top is the top-5 list of the grouped sums por
EsTop5(top, por) ==
    /\ Len(top) = Min(5, Len(por))
    /\ Elementos(top) \subseteq Elementos(por)
    /\ Cardinality(Elementos(top)) = Len(top)
    /\ \A i, j \in 1..Len(top) : i < j => top[i].total >= top[j].total
    /\ \A g \in Elementos(por) \ Elementos(top) :
          \A i \in 1..Len(top) : g.total <= top[i].total

\* C22: the Sales Analyzer's top-5 list for products (and for vendors) has
\* min(5, number of groups) entries, each a (group, sum) pair of the grouped
\* sums, in non-increasing order of sum, and every group left out has a sum
\* no larger than the smallest sum listed.
C22_Top5 ==
    dultima.op = "analizar_ventas" =>
        /\ EsTop5(dultima.ret.top_productos, dultima.ret.por_producto)
        /\ EsTop5(dultima.ret.top_vendedores, dultima.ret.por_vendedor)

\* an analysis of six products: one is left out, the list holds different
\* sums and its order is not the order the products appear in
C22_Testigo ==
    /\ dultima.op = "analizar_ventas"
    /\ Len(dultima.ret.por_producto) = 6
    /\ Len(dultima.ret.top_productos) = 5
    /\ dultima.ret.top_productos[1].total > dultima.ret.top_productos[5].total
    /\ dultima.ret.top_productos # SubSeq(dultima.ret.por_producto, 1, 5)

\* C24: in the numeric statistics of a field, mode is the most frequent
\* value when exactly one value has the highest frequency, and is null
\* whenever two or more distinct values share the highest frequency.
C24_ModaUnicaONula ==
    (dultima.op = "analizar_campo" /\ dultima.ret.tipo = "numerico") =>
        LET valores == ValoresNumericos(obtener_valores_campo(dultima.hantes, dultima.antes,
                                                              dultima.args[1]))
            masFrecuentes == Modas(valores)
        IN  IF Cardinality(masFrecuentes) = 1
               THEN \E x \in masFrecuentes : dultima.ret.moda = ModaDe(round(x))
               ELSE dultima.ret.moda = ModaNula

(***************************************************************************)
(* Two journal instances on one store: jstate and operaciones hold one     *)
(* entry per instance, registradas what was recorded through either        *)
(***************************************************************************)
Instancias == {1, 2}

InitDos ==
    /\ store \in {StoreAusente, StoreLista(<<OpGuardada>>)}
    /\ jstate = [k \in Instancias |-> "sin_construir"]
    /\ operaciones = [k \in Instancias |-> <<>>]
    /\ clock = 0
    /\ ultima = SinLlamada
    /\ cargadas = <<>>
    /\ registradas = <<>>
    /\ limpiado = FALSE
    /\ huboFallo = FALSE
    /\ DIdle
    /\ AIdle

\* RegistroOperaciones.__init__ of instance k on the store as it is now
ConstruirEn(k) ==
    /\ jstate[k] = "sin_construir"
    /\ LET c == cargar_operaciones(store)
       IN  /\ jstate' = [jstate EXCEPT ![k] = IF c.raised = None THEN "abierto" ELSE "fallo"]
           /\ operaciones' = [operaciones EXCEPT ![k] = c.ops]
           /\ ultima' = Llamada("construir", k, c.raised, <<>>, FALSE,
                                EstadisticasNulas, "ninguna", <<>>)
    /\ UNCHANGED <<store, clock, cargadas, registradas, limpiado, huboFallo>>
    /\ UNCHANGED <<dvars, avars>>

\* registrar_operacion on instance k, the write succeeding
RegistrarEn(k) ==
    /\ jstate[k] = "abierto"
    /\ Len(registradas) < MaxOps
    /\ \E a \in ArgsRegistrar, ahora \in clock..MaxClock :
          LET nueva == Operacion(a[1], a[2], a[3], a[4], ahora)
              lista == AgregarALista(operaciones[k], nueva)
              g     == guardar_operaciones(lista, store, "ok")
          IN  /\ clock' = ahora
              /\ operaciones' = [operaciones EXCEPT ![k] = lista]
              /\ store' = g.store
              /\ registradas' = Append(registradas, nueva)
              /\ ultima' = Llamada("registrar", nueva, g.raised, <<>>, FALSE,
                                   EstadisticasNulas, "ok", operaciones[k])
    /\ UNCHANGED <<jstate, cargadas, limpiado, huboFallo>>
    /\ UNCHANGED <<dvars, avars>>

Construir1 == ConstruirEn(1)
Construir2 == ConstruirEn(2)
Registrar1 == RegistrarEn(1)
Registrar2 == RegistrarEn(2)

NextDos ==
    \/ Construir1
    \/ Construir2
    \/ Registrar1
    \/ Registrar2

\* two journals on the same store
SpecDos == InitDos /\ [][NextDos]_vars

\* C29: when two journal instances are open on the same store and their
\* record() calls interleave in any order with every write succeeding, the
\* store holds every entry recorded through either instance: a write by one
\* instance never removes an entry the other has persisted.
C29_DosInstancias ==
    Elementos(registradas) \subseteq Elementos(cargar_operaciones(store).ops)

=============================================================================
